---- MODULE Spec2Model ----
(***************************************************************************)
(* A model of the victor vector cache (src/src/victor.c, src/src/types.h): *)
(* the bucketed table, insert_vector, delete_vector, search_better_match   *)
(* and search_better_n_match, with the table's reader-writer lock.         *)
(*                                                                         *)
(* Two specifications share the table:                                     *)
(*   Spec      one caller; every call is one step and leaves its arguments *)
(*             and its return value in `last`.                             *)
(*   SpecConc  several threads; a call takes the lock, runs its loop one   *)
(*             slot per step, releases the lock and returns.               *)
(***************************************************************************)
EXTENDS Integers, Sequences, FiniteSets, TLC

(***************************************************************************)
(* Sizes.  MAX_BUCKETS is 128 and STORE_SIZE is 1024*1024 in types.h; the  *)
(* model keeps the code's arithmetic and scales the two numbers down so    *)
(* that a table can be filled.                                             *)
(***************************************************************************)
MAX_BUCKETS == 2
STORE_SIZE == 32
SizeofFloat32 == 4
\* the `dims` argument of victor_table: the table's dimension
dims == 2
\* the largest n passed to search_better_n_match
MaxN == 3
\* SpecConc: the number of calls the threads make in all
MaxCalls == 3

ALIGN_DIMS(d) == ((d + 3) \div 4) * 4
SVEC_SIZE(d) == STORE_SIZE \div (d * SizeofFloat32)

dims_aligned == ALIGN_DIMS(dims)
svec_size == SVEC_SIZE(dims_aligned)

L2NORM == 1
COSINE == 2
NULL == -1

\* 2^24 and 2^8, the two fields of an encoded id
TwoTo24 == 16777216
TwoTo8 == 256

(***************************************************************************)
(* Vectors.  The callers' vectors have `dims` coordinates; a slot holds    *)
(* dims_aligned floats, and a query is read for dims_aligned floats too    *)
(* (the caller pads it with zeros).  Coordinates are small integers, so    *)
(* every score below is exact.  The caller inserts two orthogonal vectors  *)
(* and queries with them and with the zero vector.                         *)
(***************************************************************************)
CallerVectors == {<<1, 0>>, <<0, 1>>}
QueryVectors == CallerVectors \cup {<<0, 0>>}
ZeroVector == [x \in 1..dims_aligned |-> 0]
\* memcpy of dims floats followed by memset of the tail to zero
Padded(v) == [x \in 1..dims_aligned |-> IF x <= dims THEN v[x] ELSE 0]
Queries == {Padded(v) : v \in QueryVectors}

(***************************************************************************)
(* Scores are exact rationals [num, den] in lowest terms.  +infinity is    *)
(* 1/0.  A cosine c is irrational in general: it is kept as sgn(c)*c^2,    *)
(* which is rational, has the same order, and agrees with c at -1, 0, 1.   *)
(***************************************************************************)
RECURSIVE GCD(_, _)
GCD(a, b) == IF b = 0 THEN a ELSE GCD(b, a % b)
Abs(x) == IF x < 0 THEN -x ELSE x
Rat(n, d) == LET g == GCD(Abs(n), d) IN [num |-> n \div g, den |-> d \div g]
INFINITY == [num |-> 1, den |-> 0]
MinusOne == [num |-> -1, den |-> 1]
Zero == [num |-> 0, den |-> 1]
One == [num |-> 1, den |-> 1]

RECURSIVE Dot(_, _, _)
Dot(a, b, d) == IF d = 0 THEN 0 ELSE a[d] * b[d] + Dot(a, b, d - 1)
RECURSIVE SqDist(_, _, _)
SqDist(a, b, d) == IF d = 0 THEN 0 ELSE (a[d] - b[d]) * (a[d] - b[d]) + SqDist(a, b, d - 1)

\* math.c is not among the sources: the kernels follow spec.md section 4.1
euclidean_distance(a, b, d) == [num |-> SqDist(a, b, d), den |-> 1]
euclidean_distance_best(x, y) == x.num * y.den < y.num * x.den
cosine_similarity(a, b, d) ==
    LET dot == Dot(a, b, d)
        na == Dot(a, a, d)
        nb == Dot(b, b, d)
    IN IF na = 0 \/ nb = 0 THEN MinusOne
       ELSE Rat((IF dot < 0 THEN -1 ELSE 1) * dot * dot, na * nb)
cosine_similarity_best(x, y) == x.num * y.den > y.num * x.den

\* the kernel record victor_table installs for a mode
compare_vectors(m, a, b, d) ==
    IF m = L2NORM THEN euclidean_distance(a, b, d) ELSE cosine_similarity(a, b, d)
is_better_match(m, x, y) ==
    IF m = L2NORM THEN euclidean_distance_best(x, y) ELSE cosine_similarity_best(x, y)
\* a slip: the worst value of COSINE is set below every cosine
worst_match_value_below(m) == IF m = L2NORM THEN INFINITY ELSE Rat(-2, 1)
worst_match_value(m) == IF m = L2NORM THEN INFINITY ELSE MinusOne


(***************************************************************************)
(* The table.  `table` holds struct table's index and buckets[] together   *)
(* with the heap of bucket objects the handles in buckets[] point to.  A   *)
(* bucket is [index, svec, store]: store is the slab, a flat array of      *)
(* floats, and svec[s] is NULL or an offset (in floats) into the slab.     *)
(***************************************************************************)
VARIABLES
    mode,       \* the cmpmode the table was created with
    table,      \* the table and its buckets
    crashed,    \* the process ended on a fault
    last,       \* Spec: the call made last, with its arguments and what it returned
    issued,     \* Spec: the ids successful inserts returned, in order
    deleted,    \* Spec: the issued ids that were handed to delete_vector
    th,         \* SpecConc: each thread's place in its call, and its locals
    rwlock,     \* SpecConc: table->rwlock, [writer, readers]
    hist,       \* SpecConc: the writes in the order they took effect, each with the
                \*           table it left; hist[1] is the table as created
    ncalls,     \* SpecConc: the number of calls made so far
    idMap,      \* SpecDB: the registry of the VictorDB, internal id -> external id
    storage     \* SpecDB: the record store, external id -> the record's embeddings

Slots == 0..(svec_size - 1)
BucketIdx == 0..(MAX_BUCKETS - 1)
StoreFloats == STORE_SIZE \div SizeofFloat32

\* a heap cell no handle points to
Unallocated ==
    [index |-> 0, svec |-> [s \in Slots |-> NULL], store |-> [x \in 0..(StoreFloats - 1) |-> 0]]

\* the bucket alloc_bucket returns when no allocation fails
\* a slip: the slots are laid out dims apart, not dims_aligned apart
alloc_bucket_packed(d) ==
    [index |-> 0,
     svec |-> [s \in 0..(SVEC_SIZE(d) - 1) |-> s * dims],
     store |-> [x \in 0..(StoreFloats - 1) |-> 0]]
alloc_bucket(d) ==
    [index |-> 0,
     svec |-> [s \in 0..(SVEC_SIZE(d) - 1) |-> s * d],
     store |-> [x \in 0..(StoreFloats - 1) |-> 0]]

\* the d floats a slot pointer designates
Deref(b, p, d) == [x \in 1..d |-> b.store[p + x - 1]]

\* memcpy / memset through a slot pointer
StoreAt(b, p, vec, d) ==
    [x \in DOMAIN b.store |-> IF x >= p /\ x < p + d THEN vec[x - p + 1] ELSE b.store[x]]

Int8(x) == ((x + 128) % TwoTo8) - 128

\* a slip: the bucket field counts the buckets from one
encode_vector_id_from_one(bucket, slot) == Int8(bucket + 1) * TwoTo24 + (slot % TwoTo24)

\* a slip: the bucket field is left out of the id
encode_vector_id_no_bucket(bucket, slot) == slot % TwoTo24
encode_vector_id(bucket, slot) == Int8(bucket) * TwoTo24 + (slot % TwoTo24)

\* the table victor_table returns for a valid mode
victor_table ==
    [index |-> 0,
     buckets |-> [i \in BucketIdx |-> IF i = 0 THEN 0 ELSE NULL],
     heap |-> [h \in BucketIdx |-> IF h = 0 THEN alloc_bucket(dims_aligned) ELSE Unallocated]]

\* the bucket object behind buckets[i]
BucketAt(T, i) == T.heap[T.buckets[i]]

(***************************************************************************)
(* insert_vector, statement by statement (the write lock is modelled with  *)
(* the callers, further down).                                             *)
(*   insert_check  lines 261-276: pick the bucket, allocating the next one *)
(*                 when the current one is full.  allocOk says whether     *)
(*                 alloc_bucket succeeds if called.  go is "copy", or the  *)
(*                 failure the call returns -1 for: "oom", "capacity".     *)
(*   insert_copy   lines 277-278: memcpy and memset through the slot       *)
(*                 pointer.  delete_vector can null the pointer of a slot  *)
(*                 that was never assigned; the copy through a null        *)
(*                 pointer faults, and the process ends ("crash").         *)
(*   insert_count  lines 279-280: encode the id, advance the bucket index. *)
(***************************************************************************)
\* a slip: a full table turns back to its first bucket before it reports the failure
insert_check_wraps(T, allocOk) ==
    LET b == BucketAt(T, T.index) IN
    IF b.index >= svec_size
    THEN IF T.index + 1 < MAX_BUCKETS
         THEN IF ~allocOk
              THEN [table |-> T, go |-> "oom"]
              ELSE [table |-> [T EXCEPT !.index = T.index + 1,
                                        !.buckets[T.index + 1] = T.index + 1,
                                        !.heap[T.index + 1] = alloc_bucket(dims_aligned)],
                    go |-> "copy"]
         ELSE [table |-> [T EXCEPT !.index = 0], go |-> "capacity"]
    ELSE [table |-> T, go |-> "copy"]
\* a slip: table->index is advanced before alloc_bucket is known to have succeeded
insert_check_index_first(T, allocOk) ==
    LET b == BucketAt(T, T.index) IN
    IF b.index >= svec_size
    THEN IF T.index + 1 < MAX_BUCKETS
         THEN IF ~allocOk
              THEN [table |-> [T EXCEPT !.index = T.index + 1], go |-> "oom"]
              ELSE [table |-> [T EXCEPT !.index = T.index + 1,
                                        !.buckets[T.index + 1] = T.index + 1,
                                        !.heap[T.index + 1] = alloc_bucket(dims_aligned)],
                    go |-> "copy"]
         ELSE [table |-> T, go |-> "capacity"]
    ELSE [table |-> T, go |-> "copy"]

\* the handle of the bucket allocated for buckets[i] is i: one object per array cell
\* a slip: the test for a full bucket is off by one, and the last slot is never used
insert_check_early(T, allocOk) ==
    LET b == BucketAt(T, T.index) IN
    IF b.index + 1 >= svec_size
    THEN IF T.index + 1 < MAX_BUCKETS
         THEN IF ~allocOk
              THEN [table |-> T, go |-> "oom"]
              ELSE [table |-> [T EXCEPT !.index = T.index + 1,
                                        !.buckets[T.index + 1] = T.index + 1,
                                        !.heap[T.index + 1] = alloc_bucket(dims_aligned)],
                    go |-> "copy"]
         ELSE [table |-> T, go |-> "capacity"]
    ELSE [table |-> T, go |-> "copy"]
insert_check(T, allocOk) ==
    LET b == BucketAt(T, T.index) IN
    IF b.index >= svec_size
    THEN IF T.index + 1 < MAX_BUCKETS
         THEN IF ~allocOk
              THEN [table |-> T, go |-> "oom"]
              ELSE [table |-> [T EXCEPT !.index = T.index + 1,
                                        !.buckets[T.index + 1] = T.index + 1,
                                        !.heap[T.index + 1] = alloc_bucket(dims_aligned)],
                    go |-> "copy"]
         ELSE [table |-> T, go |-> "capacity"]
    ELSE [table |-> T, go |-> "copy"]

\* a slip: the memset starts one float early and zeroes the last coordinate
insert_copy_pads_early(T, v) ==
    LET h == T.buckets[T.index]
        b == T.heap[h]
        p == b.svec[b.index]
    IN IF p = NULL
       THEN [table |-> T, err |-> "crash"]
       ELSE [table |-> [T EXCEPT !.heap[h].store =
                           StoreAt(b, p, [x \in 1..dims_aligned |->
                                             IF x < dims THEN v[x] ELSE 0], dims_aligned)],
             err |-> "ok"]

\* a slip: the copy is sized in floats where memcpy counts bytes, so only the first
\* float of the vector reaches the slot
insert_copy_short(T, v) ==
    LET h == T.buckets[T.index]
        b == T.heap[h]
        p == b.svec[b.index]
    IN IF p = NULL
       THEN [table |-> T, err |-> "crash"]
       ELSE [table |-> [T EXCEPT !.heap[h].store = StoreAt(b, p, Padded(v), 1)],
             err |-> "ok"]
insert_copy(T, v) ==
    LET h == T.buckets[T.index]
        b == T.heap[h]
        p == b.svec[b.index]
    IN IF p = NULL
       THEN [table |-> T, err |-> "crash"]
       ELSE [table |-> [T EXCEPT !.heap[h].store = StoreAt(b, p, Padded(v), dims_aligned)],
             err |-> "ok"]

\* a slip: the bucket's index is not advanced after the copy
insert_count_skip(T) ==
    [table |-> T, ret |-> encode_vector_id(T.index, BucketAt(T, T.index).index)]

\* a slip: the id is encoded after the bucket's index was advanced
insert_count_id_after(T) ==
    LET h == T.buckets[T.index]
        b == T.heap[h]
    IN [table |-> [T EXCEPT !.heap[h].index = b.index + 1],
        ret |-> encode_vector_id(T.index, b.index + 1)]
insert_count(T) ==
    LET h == T.buckets[T.index]
        b == T.heap[h]
    IN [table |-> [T EXCEPT !.heap[h].index = b.index + 1],
        ret |-> encode_vector_id(T.index, b.index)]

\* the whole call: the new table, the value returned, and "ok", "oom", "capacity" or "crash"
insert_vector(T, v, allocOk) ==
    LET c == insert_check(T, allocOk) IN
    IF c.go # "copy" THEN [table |-> c.table, ret |-> -1, err |-> c.go]
    ELSE LET w == insert_copy(c.table, v) IN
         IF w.err = "crash" THEN [table |-> c.table, ret |-> NULL, err |-> "crash"]
         ELSE LET n == insert_count(w.table)
              IN [table |-> n.table, ret |-> n.ret, err |-> "ok"]

(***************************************************************************)
(* delete_vector: decode the id (lines 303-304), test the guard (306),     *)
(* zero the slot (308), null its pointer (309).  It returns 0 always.      *)
(***************************************************************************)
decode_bucket(id) == Int8(id \div TwoTo24)
\* a slip: the slot is masked to 16 bits
decode_slot_16(id) == id % (TwoTo8 * TwoTo8)
decode_slot(id) == id % TwoTo24

delete_guard(T, ib, iv) ==
    /\ ib >= 0
    /\ ib < MAX_BUCKETS
    /\ T.buckets[ib] # NULL
    /\ iv >= 0
    /\ iv < svec_size
    /\ BucketAt(T, ib).svec[iv] # NULL

\* a slip: the memset is sized for two slots, so it runs over the slot that follows
delete_zero_overrun(T, ib, iv) ==
    LET h == T.buckets[ib]
        b == T.heap[h]
    IN [T EXCEPT !.heap[h].store =
                     StoreAt(b, b.svec[iv], [x \in 1..(2 * dims_aligned) |-> 0],
                             2 * dims_aligned)]
delete_zero(T, ib, iv) ==
    LET h == T.buckets[ib]
        b == T.heap[h]
    IN [T EXCEPT !.heap[h].store = StoreAt(b, b.svec[iv], ZeroVector, dims_aligned)]

\* a slip: the slot is zeroed but its pointer is not nulled
\* a slip: deleting the slot assigned last gives it back to the bucket
delete_null_reclaims(T, ib, iv) ==
    LET b == T.heap[T.buckets[ib]] IN
    [T EXCEPT !.heap[T.buckets[ib]].svec[iv] = NULL,
              !.heap[T.buckets[ib]].index = IF iv = b.index - 1 THEN iv ELSE b.index]
delete_null_skip(T, ib, iv) == T

delete_null(T, ib, iv) == [T EXCEPT !.heap[T.buckets[ib]].svec[iv] = NULL]

\* a slip: the number of vectors deleted is returned
delete_vector_counts(T, id) ==
    LET ib == decode_bucket(id)
        iv == decode_slot(id)
    IN IF delete_guard(T, ib, iv)
       THEN [table |-> delete_null(delete_zero(T, ib, iv), ib, iv), ret |-> 1]
       ELSE [table |-> T, ret |-> 0]
\* a slip: what the comment above delete_vector promises, -1 for an id that names no
\* live slot
delete_vector_rejects_unknown(T, id) ==
    LET ib == decode_bucket(id)
        iv == decode_slot(id)
    IN IF delete_guard(T, ib, iv)
       THEN [table |-> delete_null(delete_zero(T, ib, iv), ib, iv), ret |-> 0]
       ELSE [table |-> T, ret |-> -1]
delete_vector(T, id) ==
    LET ib == decode_bucket(id)
        iv == decode_slot(id)
    IN IF delete_guard(T, ib, iv)
       THEN [table |-> delete_null(delete_zero(T, ib, iv), ib, iv), ret |-> 0]
       ELSE [table |-> T, ret |-> 0]

\* victor.go, deleteVector: an error unless delete_vector returned 0
deleteVector(T, id) ==
    LET r == delete_vector(T, id)
    IN [table |-> r.table, ret |-> r.ret, err |-> IF r.ret # 0 THEN "failed" ELSE "nil"]

(***************************************************************************)
(* The scans.  A match result is [id, distance].  visit_1 and visit_n are  *)
(* the body of the inner loop for slot j of bucket i; scan_1 and scan_n    *)
(* run the two nested loops from position (i, j) to the end.               *)
(***************************************************************************)
NoMatch(m) == [id |-> -1, distance |-> worst_match_value(m)]

\* a slip: a candidate replaces the best so far unless the best so far is better
visit_1_tie_last(T, m, q, best, i, j) ==
    LET b == BucketAt(T, i) IN
    IF b.svec[j] = NULL THEN best
    ELSE LET tmp == compare_vectors(m, Deref(b, b.svec[j], dims_aligned), q, dims_aligned)
         IN IF ~is_better_match(m, best.distance, tmp)
            THEN [id |-> encode_vector_id(i, j), distance |-> tmp]
            ELSE best

visit_1(T, m, q, best, i, j) ==
    LET b == BucketAt(T, i) IN
    IF b.svec[j] = NULL THEN best
    ELSE LET tmp == compare_vectors(m, Deref(b, b.svec[j], dims_aligned), q, dims_aligned)
         IN IF is_better_match(m, tmp, best.distance)
            THEN [id |-> encode_vector_id(i, j), distance |-> tmp]
            ELSE best

\* result[i] = result[i-1] for i = len-1 down to 1, on the array that starts at R[k]
shift_right_mr(R, k, len) ==
    [x \in DOMAIN R |-> IF x > k /\ x < k + len THEN R[x - 1] ELSE R[x]]

\* a slip: the for-k loop breaks at an entry that is no better than the candidate
first_better_or_equal(m, R, tmp, n, k) ==
    LET ks == {x \in k..(n - 1) : ~is_better_match(m, R[x].distance, tmp)}
    IN IF ks = {} THEN n ELSE CHOOSE x \in ks : \A y \in ks : x <= y

\* a slip: the for-k loop runs from the worst end of the array
first_better_from_end(m, R, tmp, n, k) ==
    LET ks == {x \in k..(n - 1) : is_better_match(m, tmp, R[x].distance)}
    IN IF ks = {} THEN n ELSE CHOOSE x \in ks : \A y \in ks : y <= x

\* the k at which the for-k loop breaks, or n when it runs to the end
RECURSIVE first_better(_, _, _, _, _)
first_better(m, R, tmp, n, k) ==
    IF k >= n THEN n
    ELSE IF is_better_match(m, tmp, R[k].distance) THEN k
    ELSE first_better(m, R, tmp, n, k + 1)

\* a slip: the candidate's distance is stored but not its id
visit_n_keeps_id(T, m, q, R, n, i, j) ==
    LET b == BucketAt(T, i) IN
    IF b.svec[j] = NULL THEN R
    ELSE LET tmp == compare_vectors(m, Deref(b, b.svec[j], dims_aligned), q, dims_aligned)
             k == first_better(m, R, tmp, n, 0)
             S == shift_right_mr(R, k, n - k - 1)
         IN IF k < n
            THEN [S EXCEPT ![k] = [id |-> S[k].id, distance |-> tmp]]
            ELSE R
visit_n(T, m, q, R, n, i, j) ==
    LET b == BucketAt(T, i) IN
    IF b.svec[j] = NULL THEN R
    ELSE LET tmp == compare_vectors(m, Deref(b, b.svec[j], dims_aligned), q, dims_aligned)
             k == first_better(m, R, tmp, n, 0)
         IN IF k < n
            THEN [shift_right_mr(R, k, n - k - 1) EXCEPT
                     ![k] = [id |-> encode_vector_id(i, j), distance |-> tmp]]
            ELSE R

\* the position the loops reach next from (i, j): a slot to visit, or i > index
RECURSIVE scan_pos(_, _, _)
scan_pos(T, i, j) ==
    IF i > T.index THEN [i |-> i, j |-> 0]
    ELSE IF T.buckets[i] = NULL THEN scan_pos(T, i + 1, 0)
    ELSE IF j < BucketAt(T, i).index THEN [i |-> i, j |-> j]
    ELSE scan_pos(T, i + 1, 0)

RECURSIVE scan_1(_, _, _, _, _, _)
scan_1(T, m, q, best, i, j) ==
    LET p == scan_pos(T, i, j) IN
    IF p.i > T.index THEN best
    ELSE scan_1(T, m, q, visit_1(T, m, q, best, p.i, p.j), p.i, p.j + 1)

RECURSIVE scan_n(_, _, _, _, _, _, _)
scan_n(T, m, q, R, n, i, j) ==
    LET p == scan_pos(T, i, j) IN
    IF p.i > T.index THEN R
    ELSE scan_n(T, m, q, visit_n(T, m, q, R, n, p.i, p.j), n, p.i, p.j + 1)

search_better_match(T, m, q) == scan_1(T, m, q, NoMatch(m), 0, 0)

\* a slip: the filling loop stops one entry short; the last entry keeps what malloc left
init_results_short(m, n) ==
    [k \in 0..(n - 1) |-> IF k < n - 1 THEN [id |-> -1, distance |-> worst_match_value(m)]
                           ELSE [id |-> 0, distance |-> Zero]]

\* the loop that fills the freshly allocated result array
init_results(m, n) == [k \in 0..(n - 1) |-> [id |-> -1, distance |-> worst_match_value(m)]]

search_better_n_match(T, m, q, n) == scan_n(T, m, q, init_results(m, n), n, 0, 0)

(***************************************************************************)
(* Spec: one caller.  insert_vector, delete_vector and search_better_match *)
(* are one step each.  search_better_n_match is a step for the call (the   *)
(* malloc and the loop that fills the array) and then one step per slot    *)
(* visited; it has returned when last.done holds.  The ids handed to       *)
(* delete_vector are the ids of every slot of every bucket the table could *)
(* have, and three ids that name no slot.                                  *)
(***************************************************************************)
SlotIds == {encode_vector_id(b, s) : b \in BucketIdx, s \in Slots}
DeleteIds ==
    SlotIds \cup {-1, encode_vector_id(MAX_BUCKETS, 0), encode_vector_id(0, svec_size)}

Range(f) == {f[x] : x \in DOMAIN f}

Threads == {"t1", "t2"}
NoThread == "none"

\* a thread that is in no call and holds no result
IdleThread ==
    [pc |-> "idle", op |-> "none", v |-> <<>>, id |-> 0, q |-> <<>>, n |-> 0,
     pos |-> [i |-> 0, j |-> 0], res |-> <<>>, ret |-> 0, lo |-> 0]

seqvars == <<last, issued, deleted>>
concvars == <<th, rwlock, hist, ncalls>>
dbvars == <<idMap, storage>>
vars == <<mode, table, crashed, last, issued, deleted, th, rwlock, hist, ncalls, idMap, storage>>

\* the caller is not inside a call
Idle == ~crashed /\ (last.op = "search_n" => last.done)

Init ==
    /\ mode \in {L2NORM, COSINE}
    /\ table = victor_table
    /\ crashed = FALSE
    /\ last = [op |-> "open"]
    /\ issued = <<>>
    /\ deleted = {}
    /\ th = [t \in Threads |-> IdleThread]
    /\ rwlock = [writer |-> NoThread, readers |-> {}]
    /\ hist = <<[kind |-> "open", table |-> victor_table]>>
    /\ ncalls = 0
    /\ idMap = << >>
    /\ storage = << >>

Insert(v, allocOk) ==
    LET r == insert_vector(table, v, allocOk) IN
    /\ Idle
    /\ table' = r.table
    /\ crashed' = (r.err = "crash")
    /\ issued' = IF r.err = "ok" THEN Append(issued, r.ret) ELSE issued
    /\ last' = IF r.err = "crash"
               THEN [op |-> "crash", v |-> v, prior |-> Len(issued)]
               ELSE [op |-> "insert", v |-> v, ret |-> r.ret, err |-> r.err,
                     prior |-> Len(issued)]
    /\ UNCHANGED <<mode, deleted>>
    /\ UNCHANGED concvars
    /\ UNCHANGED dbvars

\* `again` says that this id was returned by an insert and already deleted before
Delete(id) ==
    LET r == deleteVector(table, id) IN
    /\ Idle
    /\ table' = r.table
    /\ deleted' = IF id \in Range(issued) THEN deleted \cup {id} ELSE deleted
    /\ last' = [op |-> "delete", id |-> id, ret |-> r.ret, err |-> r.err,
                again |-> id \in deleted]
    /\ UNCHANGED <<mode, crashed, issued>>
    /\ UNCHANGED concvars
    /\ UNCHANGED dbvars

\* `ins` is the id the call just before returned, if that call inserted q
Search(q) ==
    /\ Idle
    /\ last' = [op |-> "search", q |-> q, res |-> search_better_match(table, mode, q),
                ins |-> IF last.op = "insert" /\ last.err = "ok" /\ Padded(last.v) = q
                        THEN last.ret ELSE -1]
    /\ UNCHANGED <<mode, table, crashed, issued, deleted>>
    /\ UNCHANGED concvars
    /\ UNCHANGED dbvars

SearchNCall(q, n, mallocOk) ==
    LET p == scan_pos(table, 0, 0) IN
    /\ Idle
    /\ last' = IF mallocOk
               THEN [op |-> "search_n", q |-> q, n |-> n, ret |-> 0,
                     res |-> init_results(mode, n), pos |-> p, done |-> p.i > table.index]
               ELSE [op |-> "search_n", q |-> q, n |-> n, ret |-> -1,
                     res |-> <<>>, pos |-> p, done |-> TRUE]
    /\ UNCHANGED <<mode, table, crashed, issued, deleted>>
    /\ UNCHANGED concvars
    /\ UNCHANGED dbvars

SearchNVisit ==
    /\ ~crashed
    /\ last.op = "search_n"
    /\ ~last.done
    /\ LET p == scan_pos(table, last.pos.i, last.pos.j + 1)
       IN last' = [last EXCEPT
                      !.res = visit_n(table, mode, last.q, last.res, last.n,
                                      last.pos.i, last.pos.j),
                      !.pos = p,
                      !.done = p.i > table.index]
    /\ UNCHANGED <<mode, table, crashed, issued, deleted>>
    /\ UNCHANGED concvars
    /\ UNCHANGED dbvars

Next ==
    \/ \E v \in CallerVectors, allocOk \in BOOLEAN : Insert(v, allocOk)
    \/ \E id \in DeleteIds : Delete(id)
    \/ \E q \in Queries : Search(q)
    \/ \E q \in Queries, n \in 1..MaxN, mallocOk \in BOOLEAN : SearchNCall(q, n, mallocOk)
    \/ SearchNVisit

Spec == Init /\ [][Next]_vars

(***************************************************************************)
(* SpecConc: the threads.  A call is a step that makes the call, a step    *)
(* that takes the lock, one step per statement or per slot visited, and a  *)
(* step that releases the lock and returns.  pthread_rwlock: a writer      *)
(* enters when nobody holds the lock, a reader when no writer holds it.    *)
(* A write is entered in hist by the step after which it changes the table *)
(* no more.                                                                *)
(***************************************************************************)
\* a slip: the scan does not wait for the writer
rd_can_lock_always(L) == TRUE
rd_can_lock(L) == L.writer = NoThread
\* a slip: the lock counts a single reader as none
wr_can_lock_one_reader(L) == L.writer = NoThread /\ Cardinality(L.readers) <= 1
\* a slip: a writer waits for the writer only, not for the readers
wr_can_lock_ignores_readers(L) == L.writer = NoThread
wr_can_lock(L) == L.writer = NoThread /\ L.readers = {}

Me(t) == th[t]

\* the ids the threads delete: the slots of the first bucket, and no slot
ConcDeleteIds == {encode_vector_id(0, s) : s \in 0..(svec_size - 1)} \cup {-1}
CanCall(t) == ~crashed /\ Me(t).pc = "idle" /\ ncalls < MaxCalls
Called(t, rec) ==
    /\ th' = [th EXCEPT ![t] = rec]
    /\ ncalls' = ncalls + 1
    /\ UNCHANGED <<mode, table, crashed, rwlock, hist>>
    /\ UNCHANGED seqvars
    /\ UNCHANGED dbvars

CallInsert(t, v) ==
    /\ CanCall(t)
    /\ Called(t, [IdleThread EXCEPT !.pc = "ins_lock", !.op = "insert", !.v = v, !.ret = -1])

CallDelete(t, id) ==
    /\ CanCall(t)
    /\ Called(t, [IdleThread EXCEPT !.pc = "del_lock", !.op = "delete", !.id = id])

\* lo: the writes that had taken effect when the search was called
CallSearch(t, q) ==
    /\ CanCall(t)
    /\ Called(t, [IdleThread EXCEPT !.pc = "s1_lock", !.op = "search", !.q = q,
                                    !.lo = Len(hist)])

\* the malloc of the result array comes before the lock; when it fails the call returns -1
CallSearchN(t, q, n, mallocOk) ==
    /\ CanCall(t)
    /\ Called(t, IF mallocOk
                 THEN [IdleThread EXCEPT !.pc = "sn_lock", !.op = "search_n", !.q = q,
                                         !.n = n, !.lo = Len(hist)]
                 ELSE IdleThread)

WrLock(t) ==
    /\ ~crashed
    /\ Me(t).pc \in {"ins_lock", "del_lock"}
    /\ wr_can_lock(rwlock)
    /\ rwlock' = [rwlock EXCEPT !.writer = t]
    /\ th' = [th EXCEPT ![t].pc = IF Me(t).pc = "ins_lock" THEN "ins_check" ELSE "del_zero"]
    /\ UNCHANGED <<mode, table, crashed, hist, ncalls>>
    /\ UNCHANGED seqvars
    /\ UNCHANGED dbvars

\* the lock, and the initialisation of the result that follows it
RdLock(t) ==
    /\ ~crashed
    /\ Me(t).pc \in {"s1_lock", "sn_lock"}
    /\ rd_can_lock(rwlock)
    /\ rwlock' = [rwlock EXCEPT !.readers = rwlock.readers \cup {t}]
    /\ th' = [th EXCEPT ![t].pc = IF Me(t).pc = "s1_lock" THEN "s1_scan" ELSE "sn_scan",
                        ![t].res = IF Me(t).pc = "s1_lock" THEN NoMatch(mode)
                                   ELSE init_results(mode, Me(t).n)]
    /\ UNCHANGED <<mode, table, crashed, hist, ncalls>>
    /\ UNCHANGED seqvars
    /\ UNCHANGED dbvars

\* the entry of hist for the write t is making
Wrote(t, ret, T) ==
    IF Me(t).op = "insert"
    THEN [kind |-> "insert", v |-> Me(t).v, ret |-> ret, table |-> T]
    ELSE [kind |-> "delete", id |-> Me(t).id, ret |-> ret, table |-> T]

\* allocOk: whether the calloc of a bucket, when the check comes to it, gives memory
InsCheck(t, allocOk) ==
    LET c == insert_check(table, allocOk) IN
    /\ ~crashed
    /\ Me(t).pc = "ins_check"
    /\ table' = c.table
    /\ th' = [th EXCEPT ![t].pc = IF c.go = "copy" THEN "ins_copy" ELSE "ins_unlock"]
    /\ hist' = IF c.go = "copy" THEN hist ELSE Append(hist, Wrote(t, -1, c.table))
    /\ UNCHANGED <<mode, crashed, rwlock, ncalls>>
    /\ UNCHANGED seqvars
    /\ UNCHANGED dbvars

InsCopy(t) ==
    LET w == insert_copy(table, Me(t).v) IN
    /\ ~crashed
    /\ Me(t).pc = "ins_copy"
    /\ table' = w.table
    /\ crashed' = (w.err = "crash")
    /\ th' = [th EXCEPT ![t].pc = IF w.err = "crash" THEN "fault" ELSE "ins_count"]
    /\ UNCHANGED <<mode, rwlock, hist, ncalls>>
    /\ UNCHANGED seqvars
    /\ UNCHANGED dbvars

InsCount(t) ==
    LET c == insert_count(table) IN
    /\ ~crashed
    /\ Me(t).pc = "ins_count"
    /\ table' = c.table
    /\ th' = [th EXCEPT ![t].pc = "ins_unlock", ![t].ret = c.ret]
    /\ hist' = Append(hist, Wrote(t, c.ret, c.table))
    /\ UNCHANGED <<mode, crashed, rwlock, ncalls>>
    /\ UNCHANGED seqvars
    /\ UNCHANGED dbvars

InsReturn(t) ==
    /\ ~crashed
    /\ Me(t).pc = "ins_unlock"
    /\ rwlock' = [rwlock EXCEPT !.writer = NoThread]
    /\ th' = [th EXCEPT ![t] = IdleThread]
    /\ UNCHANGED <<mode, table, crashed, hist, ncalls>>
    /\ UNCHANGED seqvars
    /\ UNCHANGED dbvars

DelZero(t) ==
    LET ib == decode_bucket(Me(t).id)
        iv == decode_slot(Me(t).id)
    IN /\ ~crashed
       /\ Me(t).pc = "del_zero"
       /\ IF delete_guard(table, ib, iv)
          THEN /\ table' = delete_zero(table, ib, iv)
               /\ th' = [th EXCEPT ![t].pc = "del_null"]
               /\ hist' = hist
          ELSE /\ table' = table
               /\ th' = [th EXCEPT ![t].pc = "del_unlock"]
               /\ hist' = Append(hist, Wrote(t, 0, table))
       /\ UNCHANGED <<mode, crashed, rwlock, ncalls>>
       /\ UNCHANGED seqvars
       /\ UNCHANGED dbvars

DelNull(t) ==
    /\ ~crashed
    /\ Me(t).pc = "del_null"
    /\ table' = delete_null(table, decode_bucket(Me(t).id), decode_slot(Me(t).id))
    /\ th' = [th EXCEPT ![t].pc = "del_unlock"]
    /\ hist' = Append(hist, Wrote(t, 0, table'))
    /\ UNCHANGED <<mode, crashed, rwlock, ncalls>>
    /\ UNCHANGED seqvars
    /\ UNCHANGED dbvars

DelReturn(t) ==
    /\ ~crashed
    /\ Me(t).pc = "del_unlock"
    /\ rwlock' = [rwlock EXCEPT !.writer = NoThread]
    /\ th' = [th EXCEPT ![t] = IdleThread]
    /\ UNCHANGED <<mode, table, crashed, hist, ncalls>>
    /\ UNCHANGED seqvars
    /\ UNCHANGED dbvars

\* one turn of the loops: the test of i and j against the table as it is now, and the body
\* a slip: the read lock is dropped after each slot instead of after the loops
ScanVisit_unlocking(t) ==
    LET p == scan_pos(table, Me(t).pos.i, Me(t).pos.j) IN
    /\ ~crashed
    /\ Me(t).pc \in {"s1_scan", "sn_scan"}
    /\ p.i <= table.index
    /\ th' = [th EXCEPT
                 ![t].pos = [i |-> p.i, j |-> p.j + 1],
                 ![t].res = IF Me(t).pc = "s1_scan"
                            THEN visit_1(table, mode, Me(t).q, Me(t).res, p.i, p.j)
                            ELSE visit_n(table, mode, Me(t).q, Me(t).res, Me(t).n, p.i, p.j)]
    /\ rwlock' = [rwlock EXCEPT !.readers = rwlock.readers \ {t}]
    /\ UNCHANGED <<mode, table, crashed, hist, ncalls>>
    /\ UNCHANGED seqvars
    /\ UNCHANGED dbvars
ScanVisit(t) ==
    LET p == scan_pos(table, Me(t).pos.i, Me(t).pos.j) IN
    /\ ~crashed
    /\ Me(t).pc \in {"s1_scan", "sn_scan"}
    /\ p.i <= table.index
    /\ th' = [th EXCEPT
                 ![t].pos = [i |-> p.i, j |-> p.j + 1],
                 ![t].res = IF Me(t).pc = "s1_scan"
                            THEN visit_1(table, mode, Me(t).q, Me(t).res, p.i, p.j)
                            ELSE visit_n(table, mode, Me(t).q, Me(t).res, Me(t).n, p.i, p.j)]
    /\ UNCHANGED <<mode, table, crashed, rwlock, hist, ncalls>>
    /\ UNCHANGED seqvars
    /\ UNCHANGED dbvars

\* the loops are over and res is what the call returns
ScanOver(t) ==
    /\ Me(t).pc \in {"s1_scan", "sn_scan"}
    /\ scan_pos(table, Me(t).pos.i, Me(t).pos.j).i > table.index

\* unlock and return
ScanReturn(t) ==
    /\ ~crashed
    /\ ScanOver(t)
    /\ rwlock' = [rwlock EXCEPT !.readers = rwlock.readers \ {t}]
    /\ th' = [th EXCEPT ![t] = IdleThread]
    /\ UNCHANGED <<mode, table, crashed, hist, ncalls>>
    /\ UNCHANGED seqvars
    /\ UNCHANGED dbvars

NextConc ==
    \E t \in Threads :
        \/ \E v \in CallerVectors : CallInsert(t, v)
        \/ \E id \in ConcDeleteIds : CallDelete(t, id)
        \/ \E q \in Queries : CallSearch(t, q)
        \/ \E q \in Queries, n \in 1..MaxN, mallocOk \in BOOLEAN : CallSearchN(t, q, n, mallocOk)
        \/ WrLock(t)
        \/ RdLock(t)
        \/ \E allocOk \in BOOLEAN : InsCheck(t, allocOk)
        \/ InsCopy(t)
        \/ InsCount(t)
        \/ InsReturn(t)
        \/ DelZero(t)
        \/ DelNull(t)
        \/ DelReturn(t)
        \/ ScanVisit(t)
        \/ ScanReturn(t)

SpecConc == Init /\ [][NextConc]_vars



(***************************************************************************)
(* What the claims speak of: the live slots of a table and their scores.   *)
(***************************************************************************)
Capacity == MAX_BUCKETS * svec_size

\* a slot is live when it was assigned (below its bucket's index) and not deleted
LiveSlots(T) ==
    {s \in BucketIdx \X Slots :
        /\ s[1] <= T.index
        /\ T.buckets[s[1]] # NULL
        /\ s[2] < BucketAt(T, s[1]).index
        /\ BucketAt(T, s[1]).svec[s[2]] # NULL}

SlotScore(T, m, q, s) ==
    LET b == BucketAt(T, s[1])
    IN compare_vectors(m, Deref(b, b.svec[s[2]], dims_aligned), q, dims_aligned)

SlotPair(T, m, q, s) ==
    [id |-> encode_vector_id(s[1], s[2]), distance |-> SlotScore(T, m, q, s)]

LivePairs(T, m, q) == {SlotPair(T, m, q, s) : s \in LiveSlots(T)}

\* scan order: bucket by bucket, slot by slot
Before(s, t) == s[1] < t[1] \/ (s[1] = t[1] /\ s[2] < t[2])

\* s is the first slot in scan order among the best-scored slots of C
IsFirstBest(T, m, q, C, s) ==
    /\ s \in C
    /\ \A t \in C :
          /\ ~is_better_match(m, SlotScore(T, m, q, t), SlotScore(T, m, q, s))
          /\ SlotScore(T, m, q, t) = SlotScore(T, m, q, s) => ~Before(t, s)

\* the live slots whose score is strictly better than the worst value
Winners(T, m, q) ==
    {s \in LiveSlots(T) : is_better_match(m, SlotScore(T, m, q, s), worst_match_value(m))}

Min(a, b) == IF a < b THEN a ELSE b
IsPadding(m, e) == e.id = -1 /\ e.distance = worst_match_value(m)
Sorted(m, R, n) ==
    \A k \in 0..(n - 2) : ~is_better_match(m, R[k + 1].distance, R[k].distance)

SearchNReturned == last.op = "search_n" /\ last.ret = 0 /\ last.done

(***************************************************************************)
(* C1.  When search_better_n_match has returned, the entries of the result *)
(* that are not padding are exactly min(n, live) live (id, score) pairs,   *)
(* one per entry, and no live slot left out scores better than one kept.   *)
(* Stated for the tables in which every live slot scores strictly better   *)
(* than the worst value against the query, so that no live slot has the    *)
(* score of a padding entry.                                               *)
(***************************************************************************)
C1_TopNBest ==
    SearchNReturned /\ Winners(table, mode, last.q) = LiveSlots(table) =>
        LET L == LivePairs(table, mode, last.q)
            c == Min(last.n, Cardinality(L))
            K == {k \in 0..(last.n - 1) : ~IsPadding(mode, last.res[k])}
            S == {last.res[k] : k \in K}
        IN /\ Cardinality(K) = c
           /\ Cardinality(S) = c
           /\ S \subseteq L
           /\ \A x \in S, y \in L \ S : ~is_better_match(mode, y.distance, x.distance)

(***************************************************************************)
(* C2.  The result array of search_better_n_match is sorted best-first,    *)
(* after the array is filled and after every slot the scan visits: no      *)
(* entry's score is better than the score of the entry before it.          *)
(***************************************************************************)
C2_SortedBestFirst ==
    last.op = "search_n" /\ last.ret = 0 => Sorted(mode, last.res, last.n)

\* a scan under way that already holds two entries of different scores
C2_Witness ==
    /\ last.op = "search_n" /\ last.ret = 0 /\ ~last.done /\ last.n >= 2
    /\ last.res[0].id # -1 /\ last.res[1].id # -1
    /\ is_better_match(mode, last.res[0].distance, last.res[1].distance)

(***************************************************************************)
(* C3.  When fewer than n slots are live, every entry of the returned      *)
(* array at an index >= live is padding (-1, worst value), and the entries *)
(* that are not padding form a prefix of the array.                        *)
(***************************************************************************)
C3_Padding ==
    SearchNReturned /\ Cardinality(LiveSlots(table)) < last.n =>
        /\ \A k \in 0..(last.n - 1) :
              k >= Cardinality(LiveSlots(table)) => IsPadding(mode, last.res[k])
        /\ \A k \in 0..(last.n - 2) :
              IsPadding(mode, last.res[k]) => IsPadding(mode, last.res[k + 1])

\* two live slots, three results asked for, two found
C3_Witness ==
    /\ SearchNReturned /\ last.n = 3
    /\ Cardinality(LiveSlots(table)) = 2
    /\ deleted # {}
    /\ ~IsPadding(mode, last.res[1])

(***************************************************************************)
(* C4.  As claimed: search_better_match returns the id and score of the    *)
(* first slot in scan order among the best-scored live slots, and          *)
(* (-1, worst value) when no slot is live.                                 *)
(***************************************************************************)
C4_Original ==
    last.op = "search" =>
        IF LiveSlots(table) = {} THEN last.res = NoMatch(mode)
        ELSE \E s \in LiveSlots(table) :
                /\ IsFirstBest(table, mode, last.q, LiveSlots(table), s)
                /\ last.res = SlotPair(table, mode, last.q, s)

(***************************************************************************)
(* C4, amended.  search_better_match returns the id and score of the first *)
(* slot in scan order among the best-scored live slots whose score is      *)
(* strictly better than the worst value, and (-1, worst value) when there  *)
(* is no such slot.                                                        *)
(***************************************************************************)
C4_BestMatch ==
    last.op = "search" =>
        IF Winners(table, mode, last.q) = {} THEN last.res = NoMatch(mode)
        ELSE \E s \in Winners(table, mode, last.q) :
                /\ IsFirstBest(table, mode, last.q, Winners(table, mode, last.q), s)
                /\ last.res = SlotPair(table, mode, last.q, s)

\* a slot was deleted, and two live slots tie for the best score: the earlier is returned
C4_Witness ==
    /\ last.op = "search" /\ deleted # {}
    /\ \E s, t \in Winners(table, mode, last.q) :
          /\ Before(s, t)
          /\ SlotScore(table, mode, last.q, s) = SlotScore(table, mode, last.q, t)
          /\ last.res = SlotPair(table, mode, last.q, s)

(***************************************************************************)
(* C5.  The ids returned by successful inserts are pairwise distinct,      *)
(* whatever deletes came in between.                                       *)
(***************************************************************************)
C5_UniqueIds ==
    \A a, b \in DOMAIN issued : a # b => issued[a] # issued[b]

\* the table was filled, across both buckets, with a delete among the inserts
C5_Witness ==
    /\ Len(issued) = Capacity
    /\ \E d \in deleted : d # issued[Len(issued)]


SlotOf(id) == <<decode_bucket(id), decode_slot(id)>>
ExactScore(m) == IF m = L2NORM THEN Zero ELSE One

(***************************************************************************)
(* C6.  As claimed: a search for v right after insert(v) returned id i     *)
(* returns id i with the exact-match score (0 under L2, 1 under cosine).   *)
(***************************************************************************)
C6_Original ==
    last.op = "search" /\ last.ins # -1 =>
        last.res = [id |-> last.ins, distance |-> ExactScore(mode)]

(***************************************************************************)
(* C6, amended.  A search for v right after insert(v) returned id i        *)
(* returns the exact-match score; slot i is live with that score, and the  *)
(* id returned is that of the first live slot in scan order with that      *)
(* score: i itself unless an earlier live slot scores the same against v.  *)
(***************************************************************************)
C6_InsertThenSearch ==
    last.op = "search" /\ last.ins # -1 =>
        LET E == {s \in LiveSlots(table) :
                     SlotScore(table, mode, last.q, s) = ExactScore(mode)}
        IN /\ SlotOf(last.ins) \in E
           /\ last.res.distance = ExactScore(mode)
           /\ \E s \in E : /\ \A t \in E : ~Before(t, s)
                           /\ last.res.id = encode_vector_id(s[1], s[2])
           /\ last.res.id # last.ins => Before(SlotOf(last.res.id), SlotOf(last.ins))

\* the vector just inserted is found under its own id although another slot was deleted
C6_Witness ==
    /\ last.op = "search" /\ last.ins # -1 /\ last.res.id = last.ins
    /\ Len(issued) >= 3 /\ deleted # {}

C8_Capacity ==
    /\ last.op = "insert" /\ last.err # "oom" =>
          (last.prior < Capacity <=> last.ret # -1)
    /\ last.op = "crash" => last.prior >= Capacity

(***************************************************************************)
(* C9.  An insert that returns -1, for a full table or for a failed        *)
(* allocation, leaves the table as it was (index, bucket array, every      *)
(* bucket's index, pointers and vectors), so every search returns what it  *)
(* returned before and the ids returned so far name the same slots.        *)
(***************************************************************************)
C9_FailedInsertNoChange ==
    [][last'.op = "insert" /\ last'.ret = -1 =>
          /\ table' = table
          /\ issued' = issued
          /\ \A q \in Queries :
                search_better_match(table', mode, q) = search_better_match(table, mode, q)]_vars

\* the insert that finds every bucket full
C9_Witness ==
    /\ last.op = "insert" /\ last.ret = -1 /\ last.err = "capacity"
    /\ Len(issued) = Capacity


(***************************************************************************)
(* C10.  The writes, taken in the order in which they took effect (each    *)
(* between its call and its return, so in the order of the calls that did  *)
(* not overlap), are a serial run: each left the table, and returned the   *)
(* value, that the whole call gives on the table the write before it left. *)
(* Every search that is about to return returns what the whole search      *)
(* gives on the table left by one of the writes of that run: one no        *)
(* earlier than the last write that had taken effect when the search was   *)
(* called.                                                                 *)
(***************************************************************************)
SerialStep(prev, e) ==
    IF e.kind = "insert"
    THEN \E allocOk \in BOOLEAN :
             LET r == insert_vector(prev, e.v, allocOk)
             IN r.err # "crash" /\ e.table = r.table /\ e.ret = r.ret
    ELSE LET r == delete_vector(prev, e.id)
         IN e.table = r.table /\ e.ret = r.ret

SearchOn(T, t) ==
    IF th[t].op = "search" THEN search_better_match(T, mode, th[t].q)
    ELSE search_better_n_match(T, mode, th[t].q, th[t].n)

C10_Linearizable ==
    /\ \A k \in 2..Len(hist) : SerialStep(hist[k - 1].table, hist[k])
    /\ \A t \in Threads :
          ScanOver(t) =>
              \E k \in th[t].lo..Len(hist) : th[t].res = SearchOn(hist[k].table, t)

\* a search that a write overtook: it returns what the table held after that write,
\* not what it held when the search was called
C10_Witness ==
    \E t \in Threads :
        /\ ScanOver(t)
        /\ Len(hist) > th[t].lo
        /\ th[t].res = SearchOn(hist[Len(hist)].table, t)
        /\ th[t].res # SearchOn(hist[th[t].lo].table, t)

(***************************************************************************)
(* C11.  A thread is at a statement of insert_vector or delete_vector that *)
(* reads or writes the table exactly while it is the writer of the lock,   *)
(* and at a statement of a scan exactly while it is one of the readers:    *)
(* the lock is taken once, before the first access, and held until the     *)
(* return.  While there is a writer there is no reader, and no second      *)
(* thread is inside a writer's statements.                                 *)
(***************************************************************************)
WriterSection ==
    {"ins_check", "ins_copy", "ins_count", "ins_unlock", "del_zero", "del_null",
     "del_unlock", "fault"}
ReaderSection == {"s1_scan", "sn_scan"}

C11_LockDiscipline ==
    /\ \A t \in Threads :
          /\ th[t].pc \in WriterSection <=> rwlock.writer = t
          /\ th[t].pc \in ReaderSection <=> t \in rwlock.readers
    /\ rwlock.writer # NoThread => rwlock.readers = {}
    /\ \A t, u \in Threads :
          t # u /\ th[t].pc \in WriterSection =>
              th[u].pc \notin (WriterSection \cup ReaderSection)

\* a writer is between its copy and its count while the other thread waits for the lock
C11_Witness ==
    \E t, u \in Threads :
        /\ th[t].pc = "ins_count"
        /\ th[u].pc \in {"s1_lock", "sn_lock", "del_lock", "ins_lock"}

(***************************************************************************)
(* C12.  While a scan is under way: every insert that had taken effect     *)
(* (so every insert that had returned) when the search was called, and     *)
(* whose slot no delete has been aimed at, has its slot live in the table  *)
(* the scan reads, holding the whole vector with its zero padding; and     *)
(* every slot the scan can see (below its bucket's index, pointer not      *)
(* null) holds the whole vector of the insert that returned its id.        *)
(***************************************************************************)
SlotVector(T, s) ==
    LET b == BucketAt(T, s[1]) IN Deref(b, b.svec[s[2]], dims_aligned)

Inserted(k) == hist[k].kind = "insert" /\ hist[k].ret # -1

DeleteAimedAt(s) ==
    \E k \in 2..Len(hist) : hist[k].kind = "delete" /\ SlotOf(hist[k].id) = s

C12_InsertSeenWhole ==
    \A t \in Threads :
        th[t].pc \in ReaderSection =>
            /\ \A k \in 2..th[t].lo :
                  Inserted(k) /\ ~DeleteAimedAt(SlotOf(hist[k].ret)) =>
                      /\ SlotOf(hist[k].ret) \in LiveSlots(table)
                      /\ SlotVector(table, SlotOf(hist[k].ret)) = Padded(hist[k].v)
            /\ \A s \in LiveSlots(table) :
                  \E k \in 2..Len(hist) :
                      /\ Inserted(k)
                      /\ SlotOf(hist[k].ret) = s
                      /\ SlotVector(table, s) = Padded(hist[k].v)

\* a scan called after an insert returned is at work while another insert waits
C12_Witness ==
    \E t, u \in Threads :
        /\ th[t].pc \in ReaderSection
        /\ \E k \in 2..th[t].lo : Inserted(k)
        /\ th[u].pc = "ins_lock"

(***************************************************************************)
(* C13.  From the step in which a scan takes the lock to the step in which *)
(* it returns, no step changes which slots are live or what they hold:     *)
(* neither the zeroing nor the nulling of a delete falls between two slot  *)
(* visits of a scan.                                                       *)
(***************************************************************************)
LiveVectors(T) == [s \in LiveSlots(T) |-> SlotVector(T, s)]

Scanning(t) == th[t].pc \in ReaderSection

C13_ScanSeesOneState ==
    [][(\E t \in Threads : Scanning(t)) => LiveVectors(table') = LiveVectors(table)]_vars

\* a scan holds the lock and has a slot yet to visit, while the delete of a live slot
\* waits for the lock
C13_Witness ==
    \E t, u \in Threads :
        /\ Scanning(t)
        /\ ~ScanOver(t)
        /\ th[u].pc = "del_lock"
        /\ SlotOf(th[u].id) \in LiveSlots(table)

SlotFloats(T, h, iv) ==
    LET p == T.heap[h].svec[iv]
    IN IF p = NULL THEN {} ELSE p..(p + dims_aligned - 1)

C15_DeleteFrame ==
    [][last'.op = "delete" /\ last' # last =>
          LET ib == decode_bucket(last'.id)
              iv == decode_slot(last'.id)
              hit == delete_guard(table, ib, iv)
              hb == IF hit THEN table.buckets[ib] ELSE NULL
          IN /\ ~hit => table' = table
             /\ table'.index = table.index
             /\ table'.buckets = table.buckets
             /\ \A h \in BucketIdx :
                   /\ table'.heap[h].index = table.heap[h].index
                   /\ \A s \in DOMAIN table.heap[h].svec :
                         IF h = hb /\ s = iv
                         THEN table'.heap[h].svec[s] = NULL
                         ELSE table'.heap[h].svec[s] = table.heap[h].svec[s]
                   /\ \A x \in DOMAIN table.heap[h].store :
                         IF h = hb /\ x \in SlotFloats(table, h, iv)
                         THEN table'.heap[h].store[x] = 0
                         ELSE table'.heap[h].store[x] = table.heap[h].store[x]
             /\ \A s \in LiveSlots(table) \ {<<ib, iv>>} :
                   s \in LiveSlots(table') /\ SlotVector(table', s) = SlotVector(table, s)]_vars

\* a live slot was deleted and the slot after it in the same bucket is live
C15_Witness ==
    /\ last.op = "delete" /\ ~last.again /\ last.id \in Range(issued)
    /\ <<decode_bucket(last.id), decode_slot(last.id) + 1>> \in LiveSlots(table)

(***************************************************************************)
(* SpecCodec: the id encoding alone.  A bucket index that an int8_t holds  *)
(* without a sign, and a slot index among the ends and the middle of the   *)
(* 24-bit range, are encoded as insert_vector does and decoded as          *)
(* delete_vector does.                                                     *)
(***************************************************************************)
CodecBuckets == 0..((TwoTo8 \div 2) - 1)
CodecSlots == {0, 1, svec_size - 1, svec_size, TwoTo24 \div 2, TwoTo24 - 2, TwoTo24 - 1}

EncodeId(b, s) ==
    /\ last.op \in {"open", "decode"}
    /\ last' = [op |-> "encode", bucket |-> b, slot |-> s, id |-> encode_vector_id(b, s)]
    /\ UNCHANGED <<mode, table, crashed, issued, deleted>>
    /\ UNCHANGED concvars
    /\ UNCHANGED dbvars

DecodeId ==
    /\ last.op = "encode"
    /\ last' = [op |-> "decode", bucket |-> last.bucket, slot |-> last.slot, id |-> last.id,
                ib |-> decode_bucket(last.id), iv |-> decode_slot(last.id)]
    /\ UNCHANGED <<mode, table, crashed, issued, deleted>>
    /\ UNCHANGED concvars
    /\ UNCHANGED dbvars

NextCodec ==
    \/ \E b \in CodecBuckets, s \in CodecSlots : EncodeId(b, s)
    \/ DecodeId

SpecCodec == Init /\ [][NextCodec]_vars

(***************************************************************************)
(* C16.  For a bucket index b in 0..127 and a slot index s below 2^24, the *)
(* id encode_vector_id(b, s) is a non-negative 32-bit integer, and its top *)
(* 8 bits, sign-extended, and its low 24 bits are b and s again.           *)
(***************************************************************************)
C16_RoundTrip ==
    /\ last.op \in {"encode", "decode"} =>
          last.id >= 0 /\ last.id \div TwoTo24 < TwoTo8 \div 2
    /\ last.op = "decode" => last.ib = last.bucket /\ last.iv = last.slot

\* the largest bucket and the largest slot
C16_Witness ==
    /\ last.op = "decode"
    /\ last.bucket = (TwoTo8 \div 2) - 1
    /\ last.slot = TwoTo24 - 1
    /\ last.ib = last.bucket /\ last.iv = last.slot

(***************************************************************************)
(* SpecOpen: the creation of the table.  victor_table(dims, cmpmode) is    *)
(* called with modes inside and outside {L2NORM, COSINE}, and may find no  *)
(* memory; the Go Open(storage, dims, smode) maps the mode string, lists   *)
(* the storage (here an empty one) and calls newTable.  `table` is NULL    *)
(* until a table is made, and a search is made on the table last made.     *)
(***************************************************************************)
ModeArgs == -1..(2 * COSINE)
ModeStrings == {"L2NORM", "COSINE", "l2norm", "cosine", "Cosine", "L2", "L2NORM ", ""}

\* the null `struct table *`: what victor_table returns when it makes no table
NoTable ==
    [index |-> NULL, buckets |-> [i \in BucketIdx |-> NULL],
     heap |-> [h \in BucketIdx |-> Unallocated]]

\* a slip: the switch has no default branch, and an unknown mode is served as L2NORM
victor_table_open_any(cmpmode, allocOk) ==
    IF ~allocOk THEN [cmpmode |-> 0, table |-> NoTable]
    ELSE [cmpmode |-> IF cmpmode = COSINE THEN COSINE ELSE L2NORM, table |-> victor_table]

\* victor_table(dims, cmpmode): the table and the mode its kernels are set for, or no table
victor_table_open(cmpmode, allocOk) ==
    IF ~allocOk THEN [cmpmode |-> 0, table |-> NoTable]
    ELSE IF cmpmode \in {L2NORM, COSINE} THEN [cmpmode |-> cmpmode, table |-> victor_table]
    ELSE [cmpmode |-> 0, table |-> NoTable]

\* victor.go, newTable
newTable(cmpmode, allocOk) ==
    LET t == victor_table_open(cmpmode, allocOk)
    IN [t |-> t, err |-> IF t.table = NoTable THEN "failed to create table" ELSE "nil"]

\* victor.go, insertVector: -1 from insert_vector is an error
insertVector(T, v, allocOk) ==
    LET r == insert_vector(T, v, allocOk)
    IN [table |-> r.table, id |-> r.ret,
        err |-> IF r.ret = -1 THEN "failed to insert vector" ELSE "nil"]

(***************************************************************************)
(* The record store Open replays.  A storage s says whether list()         *)
(* succeeds and holds the records in listing order; a record says whether  *)
(* load() succeeds, whether its JSON carries an "id" (rec.ID is nil        *)
(* otherwise) and its embeddings.  The external id of a record is its      *)
(* position in the listing.  `grow` says, for every bucket after the       *)
(* first, whether its allocation succeeds.                                 *)
(***************************************************************************)
NoIdMap == << >>
Put(m, k, v) == [x \in DOMAIN m \cup {k} |-> IF x = k THEN v ELSE m[x]]
GrowOk(T, grow) == (T.index + 1) \in DOMAIN grow => grow[T.index + 1]
AllGrow == [b \in 1..(MAX_BUCKETS - 1) |-> TRUE]

\* a slip: the length of the embedding is not compared with Dims
replay_embedding_any_length(db, rec, id, e, grow) ==
    IF db.panicked THEN db
    ELSE LET r == insertVector(db.table, e, GrowOk(db.table, grow)) IN
         IF r.err # "nil" THEN [db EXCEPT !.table = r.table]
         ELSE IF ~rec.hasID THEN [db EXCEPT !.table = r.table, !.panicked = TRUE]
         ELSE [db EXCEPT !.table = r.table, !.idMap = Put(@, r.id, id)]

\* Open, the body of the inner loop: the length test, insertVector, and
\* db.idMap[id] = *rec.ID, which dereferences a nil pointer when the record has no id
replay_embedding(db, rec, id, e, grow) ==
    IF db.panicked \/ Len(e) # dims THEN db
    ELSE LET r == insertVector(db.table, e, GrowOk(db.table, grow)) IN
         IF r.err # "nil" THEN [db EXCEPT !.table = r.table]
         ELSE IF ~rec.hasID THEN [db EXCEPT !.table = r.table, !.panicked = TRUE]
         ELSE [db EXCEPT !.table = r.table, !.idMap = Put(@, r.id, id)]

\* Open, the inner loop over rec.Embeddings from the k-th on
RECURSIVE replay_embeddings(_, _, _, _, _)
replay_embeddings(db, rec, id, k, grow) ==
    IF k > Len(rec.Embeddings) THEN db
    ELSE replay_embeddings(replay_embedding(db, rec, id, rec.Embeddings[k], grow),
                           rec, id, k + 1, grow)

\* Open, the outer loop over the listed records from the i-th on: a record
\* that does not load is skipped
RECURSIVE replay(_, _, _, _)
replay(db, records, i, grow) ==
    IF i > Len(records) THEN db
    ELSE replay(IF ~records[i].loads THEN db
                ELSE replay_embeddings(db, records[i], i, 1, grow),
                records, i + 1, grow)

\* Open: the mode string, then the listing of the storage, then newTable, then the replay
Open(s, smode, allocOk, grow) ==
    LET nothing == [cmpmode |-> 0, table |-> NoTable] IN
    IF smode \notin {"L2NORM", "COSINE"}
    THEN [t |-> nothing, err |-> "Invalid mode", listed |-> FALSE,
          idMap |-> NoIdMap, panicked |-> FALSE]
    ELSE IF ~s.listOk
    THEN [t |-> nothing, err |-> "list", listed |-> TRUE,
          idMap |-> NoIdMap, panicked |-> FALSE]
    ELSE LET r == newTable(IF smode = "L2NORM" THEN L2NORM ELSE COSINE, allocOk) IN
         IF r.err # "nil"
         THEN [t |-> r.t, err |-> r.err, listed |-> TRUE,
               idMap |-> NoIdMap, panicked |-> FALSE]
         ELSE LET db == replay([table |-> r.t.table, idMap |-> NoIdMap, panicked |-> FALSE],
                               s.records, 1, grow)
              IN [t |-> [cmpmode |-> r.t.cmpmode, table |-> db.table], err |-> "nil",
                  listed |-> TRUE, idMap |-> db.idMap, panicked |-> db.panicked]

\* a storage with no record
EmptyStorage(listOk) == [listOk |-> listOk, records |-> << >>]

InitOpen ==
    /\ mode = 0
    /\ table = NoTable
    /\ crashed = FALSE
    /\ last = [op |-> "none"]
    /\ issued = <<>>
    /\ deleted = {}
    /\ th = [t \in Threads |-> IdleThread]
    /\ rwlock = [writer |-> NoThread, readers |-> {}]
    /\ hist = <<>>
    /\ ncalls = 0
    /\ idMap = << >>
    /\ storage = << >>

Opened(t) ==
    /\ mode' = IF t.table = NoTable THEN mode ELSE t.cmpmode
    /\ table' = IF t.table = NoTable THEN table ELSE t.table
    /\ UNCHANGED <<crashed, issued, deleted>>
    /\ UNCHANGED concvars
    /\ UNCHANGED dbvars

CallVictorTable(cmpmode, allocOk) ==
    LET t == victor_table_open(cmpmode, allocOk) IN
    /\ last' = [op |-> "victor_table", cmpmode |-> cmpmode, ok |-> allocOk, made |-> t.table # NoTable]
    /\ Opened(t)

CallOpen(smode, listOk, allocOk) ==
    LET r == Open(EmptyStorage(listOk), smode, allocOk, AllGrow) IN
    /\ last' = [op |-> "Open", smode |-> smode, ok |-> listOk /\ allocOk, err |-> r.err,
                listed |-> r.listed, made |-> r.t.table # NoTable]
    /\ Opened(r.t)

OpenSearch(q) ==
    /\ table # NoTable
    /\ last' = [op |-> "search", q |-> q, res |-> search_better_match(table, mode, q)]
    /\ UNCHANGED <<mode, table, crashed, issued, deleted>>
    /\ UNCHANGED concvars
    /\ UNCHANGED dbvars

OpenSearchN(q, n) ==
    /\ table # NoTable
    /\ last' = [op |-> "search_n", q |-> q, n |-> n,
                res |-> search_better_n_match(table, mode, q, n)]
    /\ UNCHANGED <<mode, table, crashed, issued, deleted>>
    /\ UNCHANGED concvars
    /\ UNCHANGED dbvars

NextOpen ==
    \/ \E m \in ModeArgs, allocOk \in BOOLEAN : CallVictorTable(m, allocOk)
    \/ \E sm \in ModeStrings, listOk \in BOOLEAN, allocOk \in BOOLEAN :
          CallOpen(sm, listOk, allocOk)
    \/ \E q \in Queries : OpenSearch(q)
    \/ \E q \in Queries, n \in 1..MaxN : OpenSearchN(q, n)

SpecOpen == InitOpen /\ [][NextOpen]_vars

(***************************************************************************)
(* C17.  victor_table makes no table for a mode other than L2NORM and      *)
(* COSINE, and Open fails for a mode string other than "L2NORM" and        *)
(* "COSINE" before it lists the storage.  A table that was made has one    *)
(* bucket, index 0, bucket index 0, and the kernels of its mode: the worst *)
(* value is +infinity and better means less for L2NORM, the worst value is *)
(* -1 and better means greater for COSINE.  A search on it returns         *)
(* (-1, worst value).                                                      *)
(***************************************************************************)
SomeScores == {MinusOne, Zero, One, Rat(1, 2), Rat(2, 1), INFINITY}
Less(x, y) == x.num * y.den < y.num * x.den

C17_Open ==
    /\ last.op = "victor_table" =>
          (last.made <=> last.ok /\ last.cmpmode \in {L2NORM, COSINE})
    /\ last.op = "Open" =>
          /\ last.made <=> last.ok /\ last.smode \in {"L2NORM", "COSINE"}
          /\ last.smode \notin {"L2NORM", "COSINE"} => last.err # "nil" /\ ~last.listed
    /\ table # NoTable =>
          /\ mode \in {L2NORM, COSINE}
          /\ table.index = 0
          /\ \A i \in BucketIdx : table.buckets[i] # NULL <=> i = 0
          /\ BucketAt(table, 0).index = 0
          /\ worst_match_value(mode) = IF mode = L2NORM THEN INFINITY ELSE MinusOne
          /\ \A x, y \in SomeScores :
                is_better_match(mode, x, y) <=> IF mode = L2NORM THEN Less(x, y) ELSE Less(y, x)
    /\ last.op = "search" => last.res = [id |-> -1, distance |-> worst_match_value(mode)]

\* a table was made, then an open with an unknown mode failed, then the table was searched
C17_Witness ==
    /\ table # NoTable
    /\ mode = COSINE
    /\ last.op = "search"
    /\ last.res = [id |-> -1, distance |-> MinusOne]

(***************************************************************************)
(* C18.  After k >= 1 successful inserts, whatever deletes and failed      *)
(* inserts came in between, the table's index is floor((k - 1) / N), every *)
(* bucket before it has index N, and the current bucket has index          *)
(* k - index * N.                                                          *)
(***************************************************************************)
C18_MonotoneFilling ==
    LET k == Len(issued) IN
    k >= 1 =>
        /\ table.index = (k - 1) \div svec_size
        /\ \A i \in 0..(table.index - 1) : BucketAt(table, i).index = svec_size
        /\ BucketAt(table, table.index).index = k - table.index * svec_size

\* the last bucket was begun and a vector was deleted from a bucket before it
C18_Witness ==
    /\ table.index = MAX_BUCKETS - 1
    /\ \E id \in deleted : decode_bucket(id) < table.index
    /\ last.op = "insert" /\ last.err = "ok"

(***************************************************************************)
(* C19.  The ids of the successful inserts, in the order in which the      *)
(* inserts held the write lock, increase strictly as integers.  The first  *)
(* is slot 0 of bucket 0; each next one is the next slot of the same       *)
(* bucket or, when that bucket is full, slot 0 of the next bucket.         *)
(***************************************************************************)
InsertedAt == {k \in 2..Len(hist) : Inserted(k)}

C19_IdsAscending ==
    /\ \A k, l \in InsertedAt : k < l => hist[k].ret < hist[l].ret
    /\ \A l \in InsertedAt :
          LET b == SlotOf(hist[l].ret)
              E == {k \in InsertedAt : k < l}
          IN IF E = {} THEN b = <<0, 0>>
             ELSE LET a == SlotOf(hist[CHOOSE k \in E : \A j \in E : j <= k].ret)
                  IN \/ b[1] = a[1] /\ b[2] = a[2] + 1
                     \/ b[1] = a[1] + 1 /\ b[2] = 0 /\ a[2] = svec_size - 1

\* an insert has taken the second id while the insert of the other thread waits
C19_Witness ==
    \E t, u \in Threads :
        /\ th[t].pc = "ins_unlock" /\ th[t].ret # -1
        /\ th[u].pc = "ins_lock"
        /\ Cardinality(InsertedAt) >= 2

(***************************************************************************)
(* C20.  When search_better_n_match has returned: of two live slots with   *)
(* the same score, if the one scanned later is in the result then the one  *)
(* scanned earlier is in it too, at a lower index.  So a candidate never   *)
(* displaces an entry of equal score, and when not all of the equally      *)
(* scored slots fit, the ones scanned first are kept.                      *)
(***************************************************************************)
ResultIndex(R, n, s) == {k \in 0..(n - 1) : R[k].id = encode_vector_id(s[1], s[2])}

C20_TiesKeepEarlier ==
    SearchNReturned =>
        \A s, t \in LiveSlots(table) :
            /\ Before(s, t)
            /\ SlotScore(table, mode, last.q, s) = SlotScore(table, mode, last.q, t)
            /\ ResultIndex(last.res, last.n, t) # {}
            => \E ks \in ResultIndex(last.res, last.n, s) :
                  \A kt \in ResultIndex(last.res, last.n, t) : ks < kt

(***************************************************************************)
(* C21.  In the result of search_better_match and in every entry of a      *)
(* search_better_n_match result, during the scan and at its return, the id *)
(* is -1 exactly when the distance is the mode's worst value.              *)
(***************************************************************************)
IdIffScore(m, e) == e.id = -1 <=> e.distance = worst_match_value(m)

C21_NoIdIffWorst ==
    /\ last.op = "search" => IdIffScore(mode, last.res)
    /\ last.op = "search_n" /\ last.ret = 0 =>
          \A k \in 0..(last.n - 1) : IdIffScore(mode, last.res[k])

\* under cosine a returned array holds a scored slot and, after it, padding, on a
\* table with two live slots
C21_Witness ==
    /\ SearchNReturned /\ mode = COSINE /\ last.n >= 2
    /\ last.res[0].id # -1
    /\ last.res[1].id = -1
    /\ Cardinality(LiveSlots(table)) >= 2

(***************************************************************************)
(* C22.  Empty slots are never reused: in every reachable state every slot *)
(* of an existing bucket at or above the bucket's index has a non-null     *)
(* pointer, no insert comes upon a null pointer, and an id an insert       *)
(* returned names a live slot for as long as it was not deleted.           *)
(***************************************************************************)
C22_NoNullAboveIndex ==
    /\ \A i \in 0..table.index :
          \A s \in Slots : s >= BucketAt(table, i).index => BucketAt(table, i).svec[s] # NULL
    /\ last.op # "crash"
    /\ \A id \in Range(issued) \ deleted : SlotOf(id) \in LiveSlots(table)

(***************************************************************************)
(* C23.  A live slot whose score against the query is the mode's worst     *)
(* value (+infinity under L2NORM, -1 under COSINE) is not what             *)
(* search_better_match returns and is in no entry of a                     *)
(* search_better_n_match result; when every live slot scores so, the       *)
(* search returns (-1, worst value) and the array holds only such entries. *)
(***************************************************************************)
WorstOf(m) == IF m = L2NORM THEN INFINITY ELSE MinusOne

ScoresWorst(T, m, q) == {s \in LiveSlots(T) : SlotScore(T, m, q, s) = WorstOf(m)}

IdsOf(S) == {encode_vector_id(s[1], s[2]) : s \in S}

C23_WorstNeverReturned ==
    LET W == ScoresWorst(table, mode, last.q) IN
    /\ last.op = "search" =>
          /\ last.res.id \notin IdsOf(W)
          /\ W = LiveSlots(table) => last.res = [id |-> -1, distance |-> WorstOf(mode)]
    /\ last.op = "search_n" /\ last.ret = 0 =>
          \A k \in 0..(last.n - 1) :
              /\ last.res[k].id \notin IdsOf(W)
              /\ W = LiveSlots(table) =>
                    last.res[k] = [id |-> -1, distance |-> WorstOf(mode)]

\* the only live slot scores -1 against a zero query and the search returns no slot
C23_Witness ==
    /\ last.op = "search" /\ mode = COSINE
    /\ Cardinality(LiveSlots(table)) = 1
    /\ ScoresWorst(table, mode, last.q) = LiveSlots(table)
    /\ last.res.id = -1

(***************************************************************************)
(* C24.  As the comment above delete_vector has it: the call returns 0     *)
(* when the id names a live slot, which it deletes, and -1 when the id is  *)
(* out of bounds or names no stored vector (never inserted, or deleted).   *)
(***************************************************************************)
DeleteStep == last'.op = "delete" /\ last' # last

MaxRecords == 2
MaxEmbeddings == 5

StoredEmbeddings == {<<1, 0>>, <<0, 1, 0>>}
SeqsUpTo(S, n) == UNION {[1..k -> S] : k \in 0..n}
\* the records of at most e embeddings
Records(e) ==
    {r \in [loads : BOOLEAN, hasID : BOOLEAN,
            Embeddings : SeqsUpTo(StoredEmbeddings, e)] :
        /\ ~r.loads => r.hasID /\ r.Embeddings = << >>
        /\ ~r.hasID => Len(r.Embeddings) <= 1}
\* the listings of at most n records with at most e embeddings between them
RECURSIVE RecordSeqs(_, _)
RecordSeqs(n, e) ==
    {<< >>} \cup
    IF n = 0 THEN {}
    ELSE UNION {{<<r>> \o rest : rest \in RecordSeqs(n - 1, e - Len(r.Embeddings))} :
                   r \in Records(e)}
Storages == [listOk : BOOLEAN, records : RecordSeqs(MaxRecords, MaxEmbeddings)]
ReplayModes == {"L2NORM", "COSINE", "cosine"}
Grows == [1..(MAX_BUCKETS - 1) -> BOOLEAN]

OpenStorage(s, smode, allocOk, grow) ==
    LET r == Open(s, smode, allocOk, grow) IN
    /\ last' = [op |-> "Open", s |-> s, smode |-> smode, allocOk |-> allocOk, grow |-> grow,
                returned |-> ~r.panicked, err |-> r.err, idMap |-> r.idMap]
    /\ mode' = r.t.cmpmode
    /\ table' = r.t.table
    /\ crashed' = r.panicked
    /\ UNCHANGED <<issued, deleted>>
    /\ UNCHANGED concvars
    /\ UNCHANGED dbvars

\* Open is the constructor: it is called once
NextReplay ==
    /\ last.op = "none"
    /\ \E s \in Storages, sm \in ReplayModes, allocOk \in BOOLEAN, grow \in Grows :
          OpenStorage(s, sm, allocOk, grow)

SpecReplay == InitOpen /\ [][NextReplay]_vars

\* the embeddings of length dims of the i-th record, none when it does not load
Matching(records, i) ==
    IF ~records[i].loads THEN {}
    ELSE {k \in DOMAIN records[i].Embeddings : Len(records[i].Embeddings[k]) = dims}
RECURSIVE Sum(_, _)
Sum(f, S) == IF S = {} THEN 0 ELSE LET x == CHOOSE y \in S : TRUE IN f[x] + Sum(f, S \ {x})
MatchingCount(records) ==
    Sum([i \in DOMAIN records |-> Cardinality(Matching(records, i))], DOMAIN records)

\* one registry entry per embedding of length dims of a record that loads, mapped
\* to that record, and the table holds the registry's ids and nothing else
OneEntryPerEmbedding(s, reg, T) ==
    /\ \A i \in DOMAIN s.records :
          Cardinality({id \in DOMAIN reg : reg[id] = i}) = Cardinality(Matching(s.records, i))
    /\ \A id \in DOMAIN reg : reg[id] \in DOMAIN s.records
    /\ IdsOf(LiveSlots(T)) = DOMAIN reg
    /\ Cardinality(LiveSlots(T)) = MatchingCount(s.records)

\* Open fails only for the mode string, the listing or the table
OpenFailsOnlyAtStart(l) ==
    l.err = "nil" <=> l.smode \in {"L2NORM", "COSINE"} /\ l.s.listOk /\ l.allocOk

BucketsGrown(l) ==
    \A b \in DOMAIN l.grow : b * svec_size < MatchingCount(l.s.records) => l.grow[b]

Running(t) ==
    \/ \E allocOk \in BOOLEAN : InsCheck(t, allocOk)
    \/ InsCopy(t)
    \/ InsCount(t)
    \/ InsReturn(t)
    \/ DelZero(t)
    \/ DelNull(t)
    \/ DelReturn(t)
    \/ ScanVisit(t)
    \/ ScanReturn(t)

SpecConcFair ==
    /\ SpecConc
    /\ \A t \in Threads :
          /\ WF_vars(Running(t))
          /\ SF_vars(WrLock(t))
          /\ SF_vars(RdLock(t))

\* an idle thread holds the lock neither as writer nor as reader
ReturnsUnlocked ==
    \A t \in Threads :
        th[t].pc = "idle" => rwlock.writer # t /\ t \notin rwlock.readers

(***************************************************************************)
(* C26.  As claimed: no operation returns while it holds the table lock,   *)
(* so with a fair lock every operation that was called returns in the end, *)
(* whatever inserts, deletes and searches run beside it.                   *)
(***************************************************************************)
C26_EveryCallReturns ==
    /\ []ReturnsUnlocked
    /\ \A t \in Threads : (th[t].pc # "idle") ~> (th[t].pc = "idle")

\* what does hold: a call returns in the end, or an insert has faulted with the lock held
C26_ReturnsUnlessFault ==
    /\ []ReturnsUnlocked
    /\ \A t \in Threads : (th[t].pc # "idle") ~> (th[t].pc = "idle" \/ crashed)

(***************************************************************************)
(* C27.  As claimed: for each live slot search_n scans, with x its score   *)
(* and k the smallest index such that x is better than R[k].distance, the  *)
(* update leaves R[0..k-1] as they are, writes (id, x) at R[k] and moves   *)
(* the old R[k..n-2] to R[k+1..n-1], so that only the old R[n-1] is        *)
(* dropped; when there is no such k, and for a deleted slot, R is left as  *)
(* it is.                                                                  *)
(***************************************************************************)
BetterAt(m, R, x, n) == {k \in 0..(n - 1) : is_better_match(m, x, R[k].distance)}

C27_ShiftDropsLastOnly ==
    [][SearchNVisit =>
          LET R == last.res
              n == last.n
              s == <<last.pos.i, last.pos.j>>
              x == SlotScore(table, mode, last.q, s)
              ks == IF s \in LiveSlots(table) THEN BetterAt(mode, R, x, n) ELSE {}
          IN IF ks = {} THEN last'.res = R
             ELSE LET k == CHOOSE y \in ks : \A z \in ks : y <= z IN
                  /\ \A i \in 0..(k - 1) : last'.res[i] = R[i]
                  /\ last'.res[k] = [id |-> encode_vector_id(s[1], s[2]), distance |-> x]
                  /\ \A i \in (k + 1)..(n - 1) : last'.res[i] = R[i - 1]]_vars

(***************************************************************************)
(* C28.  In every reachable state of an open table the table's index is at *)
(* least 0 and less than MAX_BUCKETS, every bucket handle at a position up *)
(* to the index is non-null, and every handle after it is null.            *)
(***************************************************************************)
C28_BucketHandles ==
    /\ table.index >= 0 /\ table.index < MAX_BUCKETS
    /\ \A i \in BucketIdx : table.buckets[i] # NULL <=> i <= table.index

\* the last bucket is in use, and an insert has just failed on the full table
C28_Witness ==
    /\ table.index = MAX_BUCKETS - 1
    /\ last.op = "insert" /\ last.ret = -1 /\ last.err = "capacity"

(***************************************************************************)
(* C29.  Over any sequence of operations the index of every bucket (its    *)
(* high-water mark) never decreases and never exceeds N.  It changes only  *)
(* in the current bucket, only by +1, and only in an insert that succeeds: *)
(* delete, search, search_n and a failed insert change no bucket's index.  *)
(***************************************************************************)
HighWater(T, i) == IF T.buckets[i] = NULL THEN 0 ELSE BucketAt(T, i).index

C29_HighWater ==
    [][\A i \in BucketIdx :
          /\ HighWater(table', i) >= HighWater(table, i)
          /\ HighWater(table', i) <= svec_size
          /\ HighWater(table', i) # HighWater(table, i) =>
                /\ i = table'.index
                /\ HighWater(table', i) = HighWater(table, i) + 1
                /\ last'.op = "insert" /\ last'.ret # -1
                /\ \A j \in BucketIdx \ {i} : HighWater(table', j) = HighWater(table, j)]_vars

\* an insert has just failed on a full table some of whose slots were deleted
C29_Witness ==
    /\ last.op = "insert" /\ last.ret = -1 /\ last.err = "capacity"
    /\ \A i \in BucketIdx : HighWater(table, i) = svec_size
    /\ Cardinality(LiveSlots(table)) < Capacity

(***************************************************************************)
(* C30.  In every reachable state, in every bucket that exists, the        *)
(* pointer of every slot below the bucket's index is null or designates    *)
(* the slot's own region of the bucket's slab, the dims_aligned floats at  *)
(* offset i * dims_aligned; no two pointers that are not null designate    *)
(* overlapping regions, and every region lies inside its own bucket's      *)
(* slab, so none designates a region of another bucket.                    *)
(***************************************************************************)
Region(p) == p..(p + dims_aligned - 1)

C30_SlotPointers ==
    \A i \in BucketIdx : table.buckets[i] # NULL =>
        LET b == BucketAt(table, i) IN
        /\ \A s \in Slots : s < b.index =>
              b.svec[s] = NULL \/ b.svec[s] = s * dims_aligned
        /\ \A s, u \in Slots :
              s # u /\ b.svec[s] # NULL /\ b.svec[u] # NULL =>
                 Region(b.svec[s]) \cap Region(b.svec[u]) = {}
        /\ \A s \in Slots : b.svec[s] # NULL => Region(b.svec[s]) \subseteq DOMAIN b.store

\* both buckets exist, with a deleted slot and a live slot in the first
C30_Witness ==
    /\ table.index = 1
    /\ BucketAt(table, 1).index >= 1
    /\ \E s, u \in Slots :
          /\ BucketAt(table, 0).svec[s] = NULL
          /\ BucketAt(table, 0).svec[u] = u * dims_aligned /\ u > 0

(***************************************************************************)
(* C31.  An insert that succeeds writes exactly one slot.  With h the      *)
(* index of the current bucket when the copy is made (0 in a bucket the    *)
(* insert has just allocated): h < N, slot h holds the dims values of v    *)
(* followed by zeros up to dims_aligned, the bucket's index becomes h + 1, *)
(* the id returned is encode(table index, h), and no other slot's floats   *)
(* or pointer change (the other slots of a bucket just allocated are       *)
(* zero, each with its own pointer).                                       *)
(***************************************************************************)
InsertOk == last'.op = "insert" /\ last'.ret # -1 /\ table' # table

\* bucket i of T as it was before the insert; a bucket the insert allocated was fresh
BucketBefore(T, i) == IF T.buckets[i] = NULL THEN alloc_bucket(dims_aligned) ELSE BucketAt(T, i)

C31_InsertWritesOneSlot ==
    [][InsertOk =>
          LET cb == table'.index
              old == BucketBefore(table, cb)
              h == old.index
              new == BucketAt(table', cb)
          IN /\ cb \in {table.index, table.index + 1}
             /\ h < svec_size
             /\ new.svec[h] # NULL
             /\ Deref(new, new.svec[h], dims_aligned) = Padded(last'.v)
             /\ new.index = h + 1
             /\ last'.ret = encode_vector_id(cb, h)
             /\ \A i \in BucketIdx :
                   /\ i # cb => table'.buckets[i] = table.buckets[i]
                   /\ table'.buckets[i] # NULL =>
                         LET o == BucketBefore(table, i)
                             n == BucketAt(table', i)
                         IN /\ i # cb => n.index = o.index
                            /\ n.svec = o.svec
                            /\ \A x \in DOMAIN o.store :
                                  (i # cb \/ x \notin Region(o.svec[h])) =>
                                     n.store[x] = o.store[x]]_vars

\* the insert took the first slot of the second bucket, which it allocated, while a
\* slot of the first bucket is deleted and another holds a vector
C31_Witness ==
    /\ last.op = "insert" /\ last.ret = encode_vector_id(1, 0)
    /\ last.v = <<0, 1>>
    /\ BucketAt(table, 1).index = 1
    /\ \E s, u \in Slots :
          /\ BucketAt(table, 0).svec[s] = NULL
          /\ <<0, u>> \in LiveSlots(table)

(***************************************************************************)
(* C32.  In every reachable state of the table and for every query q,      *)
(* search_n(q, 1) returns an array of one entry, and that entry is the     *)
(* (id, score) search(q) returns on the same state.                        *)
(***************************************************************************)
C32_SearchOneIsSearch ==
    SearchNReturned /\ last.n = 1 =>
        /\ DOMAIN last.res = {0}
        /\ last.res[0] = search_better_match(table, mode, last.q)

\* search_n(q, 1) has returned on a table where two live slots tie for the best score
\* and a slot is deleted
C32_Witness ==
    /\ SearchNReturned /\ last.n = 1
    /\ last.res[0].id # -1
    /\ Cardinality({s \in LiveSlots(table) :
                       SlotScore(table, mode, last.q, s) = last.res[0].distance}) >= 2
    /\ Cardinality(LiveSlots(table)) < Len(issued)

(***************************************************************************)
(* C33.  Every id a successful insert returns is a non-negative 32-bit     *)
(* integer whose bucket field is the index of an existing bucket, within   *)
(* 0..127, and whose slot field is below N, N being at most 2^24.  So it   *)
(* is never -1, which an insert returns when it fails and a search returns *)
(* for no match; this holds up to the largest bucket index an int8_t       *)
(* holds and the largest 24-bit slot.                                      *)
(***************************************************************************)
Int8Max == (TwoTo8 \div 2) - 1

ValidId(id) ==
    /\ id >= 0 /\ id \div TwoTo24 <= Int8Max
    /\ decode_bucket(id) \in 0..Min(table.index, Int8Max)
    /\ decode_slot(id) < svec_size
    /\ id # -1

C33_IdsNonNegative ==
    /\ svec_size <= TwoTo24
    /\ MAX_BUCKETS - 1 <= Int8Max
    /\ \A k \in DOMAIN issued : ValidId(issued[k])
    /\ last.op = "insert" /\ last.ret # -1 => last.ret = issued[Len(issued)] /\ last.err = "ok"
    /\ \A b \in {0, MAX_BUCKETS - 1, Int8Max}, s \in {0, svec_size - 1, TwoTo24 - 1} :
          encode_vector_id(b, s) >= 0

\* the last slot of the last bucket was given out
C33_Witness ==
    /\ last.op = "insert"
    /\ last.ret = encode_vector_id(MAX_BUCKETS - 1, svec_size - 1)
    /\ last.ret > 0

(***************************************************************************)
(* C34.  search and search_n leave the table as it is: from the step that  *)
(* takes the read lock to the return, the table's index, the bucket array, *)
(* every bucket's index, every slot pointer and every stored vector stay   *)
(* as they were; and two readers can be inside their scans together.       *)
(***************************************************************************)
ReaderStep(t) == RdLock(t) \/ ScanVisit(t) \/ ScanReturn(t)

C34_SearchFrame ==
    [][/\ (\E t \in Threads : ReaderStep(t)) => table' = table
       /\ (\E t \in Threads : th[t].pc \in ReaderSection) => table' = table]_vars

\* two searches are inside their scans together, each with a slot yet to visit, on a
\* table with a live slot
C34_Witness ==
    /\ \A t \in Threads : th[t].pc \in ReaderSection /\ ~ScanOver(t)
    /\ rwlock.readers = Threads
    /\ LiveSlots(table) # {}

(***************************************************************************)
(* The library without the lock (victor_table, victor_insert,              *)
(* victor_delete, victor_cmpvec, victor_cmpvec_th): its table, insert and  *)
(* delete are statement for statement those of victor.c less the lock      *)
(* calls, so they are the operators above; its two searches compare the    *)
(* scores with < and > under a switch on cmpmode.                          *)
(***************************************************************************)
victor_insert(T, v, allocOk) == insert_vector(T, v, allocOk)
victor_delete(T, id) == delete_vector(T, id)

\* the switch of both searches: tmp < val for L2NORM, tmp > val for COSINE
Beyond(m, x, y) == IF m = L2NORM THEN Less(x, y) ELSE Less(y, x)

\* the locals before the loops: id = -1, val = INFINITY or -1.0f
cmpvec_init(m) ==
    [id |-> -1, val |-> IF m = L2NORM THEN INFINITY ELSE MinusOne, stop |-> FALSE, at |-> << >>]

\* victor_cmpvec, the body of the inner loop
cmpvec_visit(T, m, q, r, i, j) ==
    LET b == BucketAt(T, i) IN
    IF b.svec[j] = NULL THEN r
    ELSE LET tmp == compare_vectors(m, Deref(b, b.svec[j], dims_aligned), q, dims_aligned)
         IN IF Beyond(m, tmp, r.val)
            THEN [r EXCEPT !.id = encode_vector_id(i, j), !.val = tmp]
            ELSE r

\* a slip: the test of the threshold is left out, and the scan runs to the end
th_visit_no_stop(T, m, q, thold, r, i, j) ==
    [cmpvec_visit(T, m, q, r, i, j) EXCEPT !.at = <<i, j>>]

\* victor_cmpvec_th, the body of the inner loop: as above, and `goto end` when the
\* new val is beyond thold; `at` is the slot the loops have come to
th_visit(T, m, q, thold, r, i, j) ==
    LET b == BucketAt(T, i) IN
    IF b.svec[j] = NULL THEN [r EXCEPT !.at = <<i, j>>]
    ELSE LET tmp == compare_vectors(m, Deref(b, b.svec[j], dims_aligned), q, dims_aligned)
         IN IF Beyond(m, tmp, r.val)
            THEN [id |-> encode_vector_id(i, j), val |-> tmp,
                  stop |-> Beyond(m, tmp, thold), at |-> <<i, j>>]
            ELSE [r EXCEPT !.at = <<i, j>>]

RECURSIVE th_scan(_, _, _, _, _, _, _)
th_scan(T, m, q, thold, r, i, j) ==
    LET p == scan_pos(T, i, j) IN
    IF r.stop \/ p.i > T.index THEN r
    ELSE th_scan(T, m, q, thold, th_visit(T, m, q, thold, r, p.i, p.j), p.i, p.j + 1)

RECURSIVE cmpvec_scan(_, _, _, _, _, _)
cmpvec_scan(T, m, q, r, i, j) ==
    LET p == scan_pos(T, i, j) IN
    IF p.i > T.index THEN r
    ELSE cmpvec_scan(T, m, q, cmpvec_visit(T, m, q, r, p.i, p.j), p.i, p.j + 1)

victor_cmpvec_th(T, m, q, thold) == th_scan(T, m, q, thold, cmpvec_init(m), 0, 0)
victor_cmpvec(T, m, q) ==
    LET r == cmpvec_scan(T, m, q, cmpvec_init(m), 0, 0) IN [id |-> r.id, val |-> r.val]

\* the thresholds the caller passes, in the scale of the scores
Thresholds == {Rat(-2, 1), MinusOne, Zero, Rat(1, 2), One, Rat(2, 1), INFINITY}

ThInsert(v, allocOk) ==
    LET r == victor_insert(table, v, allocOk) IN
    /\ ~crashed
    /\ table' = r.table
    /\ crashed' = (r.err = "crash")
    /\ issued' = IF r.err = "ok" THEN Append(issued, r.ret) ELSE issued
    /\ last' = [op |-> IF r.err = "crash" THEN "crash" ELSE "insert", v |-> v, ret |-> r.ret]
    /\ UNCHANGED <<mode, deleted>>
    /\ UNCHANGED concvars
    /\ UNCHANGED dbvars

ThDelete(id) ==
    LET r == victor_delete(table, id) IN
    /\ ~crashed
    /\ table' = r.table
    /\ deleted' = IF id \in Range(issued) THEN deleted \cup {id} ELSE deleted
    /\ last' = [op |-> "delete", id |-> id, ret |-> r.ret]
    /\ UNCHANGED <<mode, crashed, issued>>
    /\ UNCHANGED concvars
    /\ UNCHANGED dbvars

CmpVecTh(q, thold) ==
    /\ ~crashed
    /\ last' = [op |-> "cmpvec_th", q |-> q, thold |-> thold,
                res |-> victor_cmpvec_th(table, mode, q, thold)]
    /\ UNCHANGED <<mode, table, crashed, issued, deleted>>
    /\ UNCHANGED concvars
    /\ UNCHANGED dbvars

NextTh ==
    \/ \E v \in CallerVectors, allocOk \in BOOLEAN : ThInsert(v, allocOk)
    \/ \E id \in DeleteIds : ThDelete(id)
    \/ \E q \in Queries, thold \in Thresholds : CmpVecTh(q, thold)

SpecTh == Init /\ [][NextTh]_vars

\* the first slot of C in scan order
FirstOf(C) == CHOOSE s \in C : \A t \in C : t = s \/ Before(s, t)
BeyondSlots(T, m, q, thold) ==
    {s \in LiveSlots(T) : Beyond(m, SlotScore(T, m, q, s), thold)}
ThResult(r) == [id |-> r.id, val |-> r.val]

MaxRecordEmbeddings == 2
DBEmbeddings == {<<1, 0>>, <<0, 1, 0>>}
DBRecords == SeqsUpTo(DBEmbeddings, MaxRecordEmbeddings)
hashVector(v) == [hash |-> v]
ExternalIds == {hashVector(v) : v \in DBEmbeddings}
Remove(m, k) == [x \in DOMAIN m \ {k} |-> m[x]]

\* VictorDB.Insert, the loop over r.Embeddings from the i-th on
RECURSIVE insert_embeddings(_, _, _, _, _)
insert_embeddings(D, E, id, i, allocOk) ==
    IF i > Len(E) THEN [D EXCEPT !.err = "nil"]
    ELSE IF Len(E[i]) # dims
    THEN [D EXCEPT !.storage = Remove(@, id), !.err = "invalid dims"]
    ELSE LET r == insertVector(D.table, E[i], allocOk) IN
         IF r.err # "nil"
         THEN [D EXCEPT !.table = r.table, !.storage = Remove(@, id),
                        !.err = "could not insert vector"]
         ELSE insert_embeddings([D EXCEPT !.table = r.table, !.idMap = Put(@, r.id, id)],
                                E, id, i + 1, allocOk)

\* VictorDB.Insert: the length test, the id, storage.check, storage.save, the loop
DB_Insert(D, E, saveOk, allocOk) ==
    IF Len(E) = 0 THEN [D EXCEPT !.err = "invalid embaddings len"]
    ELSE LET id == hashVector(E[1]) IN
         IF id \in DOMAIN D.storage THEN [D EXCEPT !.err = "duplicated entry"]
         ELSE IF ~saveOk THEN [D EXCEPT !.err = "save"]
         ELSE insert_embeddings([D EXCEPT !.storage = Put(@, id, E)], E, id, 1, allocOk)

\* a slip: the registry entry is left in place
DB_Delete_keeps_entry(D, ext, cid) ==
    IF cid \in DOMAIN D.idMap /\ D.idMap[cid] = ext
    THEN [D EXCEPT !.table = deleteVector(D.table, cid).table,
                   !.storage = Remove(@, ext), !.err = "nil"]
    ELSE [D EXCEPT !.err = "not found"]

\* VictorDB.Delete: cid is the key at which the range over the map finds ext first
\* (the order of a range over a map is not fixed); not found when no key maps to ext
DB_Delete(D, ext, cid) ==
    IF cid \in DOMAIN D.idMap /\ D.idMap[cid] = ext
    THEN [D EXCEPT !.table = deleteVector(D.table, cid).table,
                   !.idMap = Remove(@, cid),
                   !.storage = Remove(@, ext), !.err = "nil"]
    ELSE [D EXCEPT !.err = "not found"]

\* the keys the range over idMap can stop at for ext; -1 stands for none
DeleteKeys(ext) ==
    LET K == {cid \in DOMAIN idMap : idMap[cid] = ext} IN IF K = {} THEN {-1} ELSE K

\* the empty Record.ID a failed Search returns
NoExternalId == [hash |-> << >>]
\* VictorDB.Search: the match, its registry entry, the load of the record
DB_Search(D, m, q) ==
    LET match == search_better_match(D.table, m, q) IN
    IF match.id \notin DOMAIN D.idMap THEN [ext |-> NoExternalId, err |-> "invalid value"]
    ELSE IF D.idMap[match.id] \notin DOMAIN D.storage THEN [ext |-> NoExternalId, err |-> "load"]
    ELSE [ext |-> D.idMap[match.id], err |-> "nil"]

\* VictorDB.SearchBestN: the external ids of the matches that have a registry entry
\* and a record that loads, in order
RECURSIVE resolve(_, _, _, _)
resolve(D, R, k, n) ==
    IF k >= n THEN << >>
    ELSE (IF R[k].id \in DOMAIN D.idMap /\ D.idMap[R[k].id] \in DOMAIN D.storage
          THEN <<D.idMap[R[k].id]>> ELSE << >>) \o resolve(D, R, k + 1, n)
DB_SearchBestN(D, m, q, n) ==
    LET exts == resolve(D, search_better_n_match(D.table, m, q, n), 0, n)
    IN [exts |-> exts, err |-> IF exts = << >> THEN "no valid matches found" ELSE "nil"]

TheDB == [table |-> table, idMap |-> idMap, storage |-> storage, err |-> "nil"]
DBFrame == UNCHANGED <<mode, crashed, issued, deleted>> /\ UNCHANGED concvars

DBInsert(E, saveOk, allocOk) ==
    LET D == DB_Insert(TheDB, E, saveOk, allocOk) IN
    /\ table' = D.table
    /\ idMap' = D.idMap
    /\ storage' = D.storage
    /\ last' = [op |-> "Insert", E |-> E, err |-> D.err]
    /\ DBFrame

DBDelete(ext, cid) ==
    LET D == DB_Delete(TheDB, ext, cid) IN
    /\ table' = D.table
    /\ idMap' = D.idMap
    /\ storage' = D.storage
    /\ last' = [op |-> "Delete", ext |-> ext, cid |-> cid, err |-> D.err]
    /\ DBFrame

DBSearch(q) ==
    /\ last' = [op |-> "Search", q |-> q, res |-> DB_Search(TheDB, mode, q)]
    /\ UNCHANGED <<table, idMap, storage>>
    /\ DBFrame

DBSearchBestN(q, n) ==
    /\ last' = [op |-> "SearchBestN", q |-> q, n |-> n,
                res |-> DB_SearchBestN(TheDB, mode, q, n)]
    /\ UNCHANGED <<table, idMap, storage>>
    /\ DBFrame

\* the orders in which storage.list can return the ids of the stored records
Orders(S) == {ids \in [1..Cardinality(S) -> S] : \A i, j \in DOMAIN ids : ids[i] = ids[j] => i = j}

\* Open, the outer loop over the listed ids from the i-th on, for the record store S;
\* the ids in bad do not load
RECURSIVE replay_store(_, _, _, _, _, _)
replay_store(db, S, ids, bad, i, grow) ==
    IF i > Len(ids) THEN db
    ELSE replay_store(IF ids[i] \in bad THEN db
                      ELSE replay_embeddings(db, [hasID |-> TRUE, loads |-> TRUE,
                                                  Embeddings |-> S[ids[i]]],
                                             ids[i], 1, grow),
                      S, ids, bad, i + 1, grow)

\* the process is restarted and Open builds a new table and a new registry from
\* the record store; an Open that fails returns no VictorDB
DBOpen(ids, bad, grow) ==
    LET r == newTable(mode, TRUE)
        db == replay_store([table |-> r.t.table, idMap |-> NoIdMap, panicked |-> FALSE],
                           storage, ids, bad, 1, grow)
    IN /\ table' = db.table
       /\ idMap' = db.idMap
       /\ last' = [op |-> "Open", ids |-> ids, bad |-> bad, grow |-> grow]
       /\ UNCHANGED storage
       /\ DBFrame

NextDB ==
    \/ \E ids \in Orders(DOMAIN storage), bad \in SUBSET DOMAIN storage, grow \in Grows :
          DBOpen(ids, bad, grow)
    \/ \E E \in DBRecords, saveOk \in BOOLEAN, allocOk \in BOOLEAN : DBInsert(E, saveOk, allocOk)
    \/ \E ext \in ExternalIds : \E cid \in DeleteKeys(ext) : DBDelete(ext, cid)
    \/ \E q \in Queries : DBSearch(q)
    \/ \E q \in Queries, n \in 1..MaxN : DBSearchBestN(q, n)

SpecDB == Init /\ [][NextDB]_vars

\* the external ids a Search or a SearchBestN on the database D can resolve to
Resolved(D, m) ==
    {DB_Search(D, m, q).ext : q \in Queries} \cup
    UNION {Range(DB_SearchBestN(D, m, q, n).exts) : q \in Queries, n \in 1..MaxN}

(***************************************************************************)
(* C36.  As claimed: after VictorDB.Delete(ext) returns success, no entry  *)
(* of the registry maps an internal id to ext, every slot of the table     *)
(* that the registry held for ext is empty, and no Search or SearchBestN   *)
(* resolves to ext.                                                        *)
(***************************************************************************)
C36_DeleteRemovesRecord ==
    [][last'.op = "Delete" /\ last'.err = "nil" /\ idMap' # idMap =>
          LET ext == last'.ext
              K == {cid \in DOMAIN idMap : idMap[cid] = ext}
          IN /\ \A cid \in DOMAIN idMap' : idMap'[cid] # ext
             /\ \A cid \in K : SlotOf(cid) \notin LiveSlots(table')
             /\ ext \notin Resolved([table |-> table', idMap |-> idMap',
                                     storage |-> storage', err |-> "nil"], mode)]_vars

(***************************************************************************)
(* C37.  As claimed: when VictorDB.Insert returns an error, the record     *)
(* store, the set of live slots of the table and the registry are as they  *)
(* were before the call.                                                   *)
(***************************************************************************)
C37_FailedInsertLeavesDB ==
    [][last'.op = "Insert" /\ last'.err # "nil" =>
          /\ storage' = storage
          /\ LiveSlots(table') = LiveSlots(table)
          /\ idMap' = idMap]_vars

(***************************************************************************)
(* C38.  Between the calls of Open, Insert and Delete the key set of the   *)
(* registry is the set of the ids of the live slots of the table: every    *)
(* live vector has a registry entry and every registry key names a live    *)
(* slot.                                                                   *)
(***************************************************************************)
C38_RegistryIsLiveSlots ==
    DOMAIN idMap = IdsOf(LiveSlots(table))

\* a Delete has taken one registered embedding out and left two or more in the
\* registry, one of them still under the deleted id, with no record in the store
C38_Witness ==
    /\ last.op = "Delete" /\ last.err = "nil"
    /\ Cardinality(DOMAIN idMap) >= 2
    /\ storage = << >>
    /\ \E id \in DOMAIN idMap : idMap[id] = last.ext
    /\ last.cid \notin DOMAIN idMap

\* Open has rebuilt the registry from a stored record with two embeddings
C38_WitnessOpen ==
    /\ last.op = "Open" /\ Len(last.ids) = 1 /\ last.bad = {}
    /\ Cardinality(DOMAIN idMap) = 2

(***************************************************************************)
(* SpecGo: the HTTP handlers of one VictorDB.  net/http runs every request *)
(* in a goroutine of its own, and InsertHandler, DeleteHandler and         *)
(* SearchHandler call Insert, Delete, Search and SearchBestN on the same   *)
(* VictorDB with no lock of their own.  The calls into the table are       *)
(* atomic (the table's rwlock); the accesses to idMap and to the storage   *)
(* made between them are steps of their own.  th[g].pc is the position of  *)
(* goroutine g inside its call.                                            *)
(***************************************************************************)
Goroutines == Threads

GoFrame == UNCHANGED <<mode, issued, deleted, rwlock, hist>>
GoAt(g, pc) == ~crashed /\ th[g].pc = pc
GoReturn(g, op, res) ==
    /\ th' = [th EXCEPT ![g] = IdleThread]
    /\ last' = [op |-> op, g |-> g, res |-> res]

\* a request arrives: the handler decodes it and calls into the VictorDB
GoCall(g, call) ==
    /\ GoAt(g, "idle")
    /\ ncalls < MaxCalls
    /\ ncalls' = ncalls + 1
    /\ th' = [th EXCEPT ![g] = call]
    /\ UNCHANGED <<table, idMap, storage, last, crashed>>
    /\ GoFrame

\* Insert up to the loop: the length test, hashVector, storage.check, storage.save
GoInsertSave(g, saveOk) ==
    LET E == th[g].E
        id == hashVector(E[1])
    IN /\ GoAt(g, "Insert")
       /\ IF Len(E) = 0 THEN GoReturn(g, "Insert", "invalid embaddings len") /\ UNCHANGED storage
          ELSE IF id \in DOMAIN storage
               THEN GoReturn(g, "Insert", "duplicated entry") /\ UNCHANGED storage
          ELSE IF ~saveOk THEN GoReturn(g, "Insert", "save") /\ UNCHANGED storage
          ELSE /\ storage' = Put(storage, id, E)
               /\ th' = [th EXCEPT ![g] = [pc |-> "insertVector", E |-> E, ext |-> id, i |-> 1]]
               /\ UNCHANGED last
       /\ UNCHANGED <<table, idMap, ncalls, crashed>>
       /\ GoFrame

\* Insert, the loop body up to the registry write: the length test and insertVector
GoInsertVector(g, allocOk) ==
    LET c == th[g]
        e == c.E[c.i]
        r == insertVector(table, e, allocOk)
    IN /\ GoAt(g, "insertVector")
       /\ IF Len(e) # dims
          THEN /\ storage' = Remove(storage, c.ext)
               /\ GoReturn(g, "Insert", "invalid dims")
               /\ UNCHANGED table
          ELSE IF r.err # "nil"
          THEN /\ storage' = Remove(storage, c.ext)
               /\ GoReturn(g, "Insert", "could not insert vector")
               /\ table' = r.table
          ELSE /\ table' = r.table
               /\ th' = [th EXCEPT ![g] = [pc |-> "idMap_write", E |-> c.E, ext |-> c.ext,
                                           i |-> c.i, cid |-> r.id]]
               /\ UNCHANGED <<storage, last>>
       /\ UNCHANGED <<idMap, ncalls, crashed>>
       /\ GoFrame

\* Insert, d.idMap[id] = *r.ID, then the next embedding or the return
GoMapWrite(g) ==
    LET c == th[g] IN
    /\ GoAt(g, "idMap_write")
    /\ idMap' = Put(idMap, c.cid, c.ext)
    /\ IF c.i < Len(c.E)
       THEN /\ th' = [th EXCEPT ![g] = [pc |-> "insertVector", E |-> c.E, ext |-> c.ext,
                                        i |-> c.i + 1]]
            /\ UNCHANGED last
       ELSE GoReturn(g, "Insert", "nil")
    /\ UNCHANGED <<table, storage, ncalls, crashed>>
    /\ GoFrame

\* Delete, the range over idMap up to the first entry whose value is the id
GoRange(g) ==
    /\ GoAt(g, "range")
    /\ \E cid \in DeleteKeys(th[g].ext) :
          IF cid = -1 THEN GoReturn(g, "Delete", "not found")
          ELSE /\ th' = [th EXCEPT ![g] = [pc |-> "deleteVector", ext |-> th[g].ext,
                                           cid |-> cid]]
               /\ UNCHANGED last
    /\ UNCHANGED <<table, idMap, storage, ncalls, crashed>>
    /\ GoFrame

\* Delete, d.table.deleteVector(cid)
GoDeleteVector(g) ==
    LET c == th[g] IN
    /\ GoAt(g, "deleteVector")
    /\ table' = deleteVector(table, c.cid).table
    /\ th' = [th EXCEPT ![g] = [pc |-> "idMap_delete", ext |-> c.ext, cid |-> c.cid]]
    /\ UNCHANGED <<idMap, storage, last, ncalls, crashed>>
    /\ GoFrame

\* Delete, delete(d.idMap, cid)
GoMapDelete(g) ==
    LET c == th[g] IN
    /\ GoAt(g, "idMap_delete")
    /\ idMap' = Remove(idMap, c.cid)
    /\ th' = [th EXCEPT ![g] = [pc |-> "storage_delete", ext |-> c.ext, cid |-> c.cid]]
    /\ UNCHANGED <<table, storage, last, ncalls, crashed>>
    /\ GoFrame

\* Delete, d.storage.delete(did) and the return
GoStorageDelete(g) ==
    /\ GoAt(g, "storage_delete")
    /\ storage' = Remove(storage, th[g].ext)
    /\ GoReturn(g, "Delete", "nil")
    /\ UNCHANGED <<table, idMap, ncalls, crashed>>
    /\ GoFrame

\* Search, d.table.searchBestMatch(vector)
GoSearchTable(g) ==
    LET c == th[g] IN
    /\ GoAt(g, "searchBestMatch")
    /\ th' = [th EXCEPT ![g] = [pc |-> "idMap_read", q |-> c.q,
                                match |-> search_better_match(table, mode, c.q)]]
    /\ UNCHANGED <<table, idMap, storage, last, ncalls, crashed>>
    /\ GoFrame

\* Search, the read of d.idMap[match.id], the load and the return
GoMapRead(g) ==
    LET c == th[g] IN
    /\ GoAt(g, "idMap_read")
    /\ GoReturn(g, "Search",
                IF c.match.id \notin DOMAIN idMap
                THEN [ext |-> NoExternalId, err |-> "invalid value"]
                ELSE IF idMap[c.match.id] \notin DOMAIN storage
                THEN [ext |-> NoExternalId, err |-> "load"]
                ELSE [ext |-> idMap[c.match.id], err |-> "nil"])
    /\ UNCHANGED <<table, idMap, storage, ncalls, crashed>>
    /\ GoFrame

\* SearchBestN, d.table.searchBestNMatch(vector, n)
GoSearchNTable(g) ==
    LET c == th[g] IN
    /\ GoAt(g, "searchBestNMatch")
    /\ th' = [th EXCEPT ![g] = [pc |-> "idMap_reads", q |-> c.q, n |-> c.n,
                                matches |-> search_better_n_match(table, mode, c.q, c.n)]]
    /\ UNCHANGED <<table, idMap, storage, last, ncalls, crashed>>
    /\ GoFrame

\* SearchBestN, the loop over the matches (the reads of idMap and the loads) and the return
GoMapReads(g) ==
    LET c == th[g]
        exts == resolve(TheDB, c.matches, 0, c.n)
    IN /\ GoAt(g, "idMap_reads")
       /\ GoReturn(g, "SearchBestN",
                   [exts |-> exts,
                    err |-> IF exts = << >> THEN "no valid matches found" ELSE "nil"])
       /\ UNCHANGED <<table, idMap, storage, ncalls, crashed>>
       /\ GoFrame

\* the positions at which the next step of a goroutine writes, or reads, idMap
MapWriter(g) == th[g].pc \in {"idMap_write", "idMap_delete"}
MapReader(g) == th[g].pc \in {"range", "idMap_read", "idMap_reads"}
\* nothing orders the next accesses of two goroutines, and one of them is a write
MapRace ==
    \E g1, g2 \in Goroutines : g1 # g2 /\ MapWriter(g1) /\ (MapWriter(g2) \/ MapReader(g2))

\* a Go map is not safe for concurrent use: on a write that overlaps another
\* access the runtime may end the process ("fatal error: concurrent map writes",
\* "concurrent map read and map write"), and it may not notice
GoMapFault ==
    /\ ~crashed
    /\ MapRace
    /\ crashed' = TRUE
    /\ UNCHANGED <<table, idMap, storage, last, th, ncalls>>
    /\ GoFrame

GoRecords == {E \in DBRecords : Len(E) > 0 /\ Len(E[1]) = dims}

NextGo ==
    \/ \E g \in Goroutines :
          \/ \E E \in GoRecords : GoCall(g, [pc |-> "Insert", E |-> E])
          \/ \E ext \in ExternalIds : GoCall(g, [pc |-> "range", ext |-> ext])
          \/ \E q \in CallerVectors : GoCall(g, [pc |-> "searchBestMatch", q |-> Padded(q)])
          \/ \E q \in CallerVectors, n \in 1..MaxN :
                GoCall(g, [pc |-> "searchBestNMatch", q |-> Padded(q), n |-> n])
          \/ \E saveOk \in BOOLEAN : GoInsertSave(g, saveOk)
          \/ \E allocOk \in BOOLEAN : GoInsertVector(g, allocOk)
          \/ GoMapWrite(g)
          \/ GoRange(g)
          \/ GoDeleteVector(g)
          \/ GoMapDelete(g)
          \/ GoStorageDelete(g)
          \/ GoSearchTable(g)
          \/ GoMapRead(g)
          \/ GoSearchNTable(g)
          \/ GoMapReads(g)
    \/ GoMapFault

SpecGo == Init /\ [][NextGo]_vars

\* a Search holds a table id that an Insert in progress has not registered yet
UnregisteredFind ==
    \E g1, g2 \in Goroutines :
        /\ th[g1].pc = "idMap_read" /\ th[g2].pc = "idMap_write"
        /\ th[g1].match.id = th[g2].cid

(***************************************************************************)
(* C39.  As claimed: while the handlers of one VictorDB run concurrently,  *)
(* no access to idMap overlaps a write to it, and a Search never holds a   *)
(* table id whose registry entry is not yet written.                       *)
(***************************************************************************)
C39_RegistryExclusive == ~MapRace /\ ~UnregisteredFind

====
